---- MODULE Spec2Model ----
(***************************************************************************)
(* Model of the crawl priority queue of lute                               *)
(* (core/src/crawler/priority_queue.rs): a Redis sorted set, a Redis hash  *)
(* and one expiring string key per claim lease, driven by asynchronous     *)
(* tasks that suspend at every store call.                                 *)
(*                                                                         *)
(* Strings are sequences of character codes.  The eleven characters of the *)
(* literal ":DELIMETER:" are written as the single symbol Delim, and the   *)
(* literal "crawler:queue:claimed:" as the single symbol ClaimedPrefix.    *)
(***************************************************************************)
EXTENDS Integers, Sequences, FiniteSets, TLC

\* ------------------------------------------------------------------ bounds
\* The largest max_size handed to PriorityQueue::new, the claim_ttl_seconds
\* handed to it, the number of seconds a run lasts, and the number of calls
\* of an interleaved run.
MaxSize == 2
ClaimTtl == 1
MaxTicks == 1
MaxCalls == 6

\* The longest deduplication key and the longest string handed to the
\* ItemKey conversions.
MaxKeyLen == 2
MaxStrLen == 3

\* The largest rating_count of an album that is put.
MaxRatingCount == 3

\* The number of calls of a run in which a store call fails.
MaxFaults == 1

\* The number of puts of a run in which puts run concurrently.
MaxPuts == 3

\* The number of calls of a run of the search index.
MaxIndexCalls == 3
MaxListLen == 2
MaxCapacity == 2
MaxScore == 2
MaxPushes == 4
MaxCandidates == 3
MaxDays == 2
DayTicks == 2
MaxTtlDays == 1
MaxFiles == 1
MaxEvents == 3
BatchSize == 2

Tasks == {"t1", "t2"}

\* ----------------------------------------------------------------- strings
Delim == 58
ClaimedPrefix == 1

\* chrono::Utc::now() when the run starts.  Every timestamp of a run has the
\* same number of digits, as Unix times have from 2001 to 2286.
Epoch == 10

StrA == <<97>>
StrB == <<98>>
StrX == <<120>>

None == <<>>
Some(x) == <<x>>
Unwrap(o) == o[1]

\* enum Priority { Express = 0, High = 1, Standard = 2, Low = 3 }
Express == 0
High == 1
Standard == 2
Low == 3

\* impl TryFrom<u32> for Priority: Some(priority), or None for the bail!.
PriorityTryFrom(value) == IF value \in {Express, High, Standard, Low} THEN Some(value) ELSE None

RECURSIVE Digits(_)
\* i64 Display: the decimal digits of a non-negative number.
Digits(n) == IF n < 10 THEN <<48 + n>> ELSE Digits(n \div 10) \o <<48 + (n % 10)>>

\* impl ToString for ItemKey: "{timestamp}:DELIMETER:{deduplication_key}".
ItemKeyToString(key) == Digits(key.enqueue_time) \o <<Delim>> \o key.deduplication_key

RECURSIVE SplitDelim(_)
\* str::split(":DELIMETER:"): every piece between occurrences of the delimiter.
SplitDelim(s) ==
  IF \E i \in 1..Len(s) : s[i] = Delim
  THEN LET i == CHOOSE i \in 1..Len(s) : s[i] = Delim /\ \A j \in 1..(i - 1) : s[j] # Delim
       IN <<SubSeq(s, 1, i - 1)>> \o SplitDelim(SubSeq(s, i + 1, Len(s)))
  ELSE <<s>>

RECURSIVE DigitsValue(_)
DigitsValue(s) == IF s = <<>> THEN 0 ELSE 10 * DigitsValue(SubSeq(s, 1, Len(s) - 1)) + (s[Len(s)] - 48)

\* str::parse::<i64>() on a string of the model (no sign characters occur):
\* Some(value), or None for the parse error.
ParseI64(s) ==
  IF s # <<>> /\ \A i \in 1..Len(s) : s[i] \in 48..57 THEN Some(DigitsValue(s)) ELSE None

\* impl FromStr for ItemKey: Some(key), or None for an Err.
ItemKeyFromStr(s) ==
  LET parts == SplitDelim(s)
  IN IF Len(parts) # 2 THEN None
     ELSE IF ParseI64(parts[1]) = None THEN None
     ELSE Some([enqueue_time |-> Unwrap(ParseI64(parts[1])), deduplication_key |-> parts[2]])

\* Byte-wise order of two strings, the tie-break of a Redis sorted set.
LexLess(s, t) ==
  \E i \in 1..(Len(t)) :
    /\ \A j \in 1..(i - 1) : j <= Len(s) /\ s[j] = t[j]
    /\ (i > Len(s) \/ s[i] < t[i])

\* fn claimed_item_key(&ItemKey): "crawler:queue:claimed:{key}".
ClaimedItemKey(key) == <<ClaimedPrefix>> \o ItemKeyToString(key)

\* ------------------------------------------------------------------- state
VARIABLES
  zset,      \* sorted set crawler:queue: member string -> score
  items,     \* hash crawler:queue:items: deduplication key -> QueueItemSetRecord
  claimed,   \* claim-lease keys: key string -> time at which the key expires
  now,       \* wall clock, whole seconds
  locks,     \* push_lock / claim_lock: TRUE while a guard is alive
  pc,        \* per task: the store call it is suspended before
  call,      \* per task: the running call, [op, arg]
  local,     \* per task: what the running call has read so far
  result,    \* per task: the value the finished call returned
  held,      \* per task: the ItemKey of the item it claimed and has not deleted
  calls,     \* number of calls begun so far by interleaving tasks
  max_size,  \* PriorityQueue::max_size, fixed by PriorityQueue::new
  codec_key,    \* an ItemKey handed to to_string
  codec_str,    \* a string handed to, or made for, ItemKey::from_str
  codec_parsed, \* what ItemKey::from_str returned for codec_str
  album_repository,    \* AlbumRepository: file name -> AlbumReadModel
  album_search_index,  \* AlbumSearchIndex: file name -> AlbumReadModel
  album_call,          \* the AlbumInteractor call that ran last
  album_faults,        \* number of AlbumInteractor calls in which a store call failed
  album_tasks,         \* per task: the put it runs concurrently with the other task
  album_puts,          \* number of concurrent puts begun so far
  index_docs,          \* search index: file name -> JSON document album:{file_name}
  index_tasks,         \* per task: the search-index call it runs
  index_calls,         \* number of search-index calls begun so far
  heap,                \* BoundedMinHeap::heap: the items it holds
  heap_capacity,       \* BoundedMinHeap::capacity
  heap_fed,            \* the items pushed so far, in push order
  recommend,           \* the recommend_albums call: where it is and what it holds
  file_metadata,       \* FileMetadataRepository: file name -> FileMetadata
  ttl_days,            \* settings.file.ttl_days
  stale_call,          \* the is_file_stale or enqueue_if_stale call being answered
  file_content_store,  \* FileContentStore: file name -> content
  next_file_id,        \* the id the next new FileMetadata gets
  file_call,           \* the put_file or delete_file call that runs
  event_stream,        \* per stream: the events published, oldest first
  subscriber           \* the event subscriber: its cursor and the batch it handles

vars == <<zset, items, claimed, now, locks, pc, call, local, result, held, calls, max_size,
          codec_key, codec_str, codec_parsed,
          album_repository, album_search_index, album_call, album_faults,
          album_tasks, album_puts, index_docs, index_tasks, index_calls,
          heap, heap_capacity, heap_fed, recommend, file_metadata, ttl_days, stale_call,
          file_content_store, next_file_id, file_call, event_stream, subscriber>>

\* The album read model, which the queue and the ItemKey conversions never
\* touch.
albums == <<album_repository, album_search_index, album_call, album_faults,
            album_tasks, album_puts>>

\* The documents of the search index and the calls that run on them.
index == <<index_docs, index_tasks, index_calls>>

\* The bounded min-heap and the recommendation that fills it.
ranking == <<heap, heap_capacity, heap_fed, recommend>>

\* The saved files, their TTLs and the staleness question being answered.
crawl == <<file_metadata, ttl_days, stale_call>>

\* The file contents, the file calls, the event streams and the subscriber.
bus == <<file_content_store, next_file_id, file_call, event_stream, subscriber>>

\* What a run of the queue leaves alone.
fixed == <<max_size, codec_key, codec_str, codec_parsed, albums, index, ranking, crawl, bus>>

\* QueuePushParameters a caller passes.
PushInputs ==
  { [file_name |-> StrA, priority |-> None, deduplication_key |-> None,
     correlation_id |-> None, metadata |-> None],
    [file_name |-> StrB, priority |-> Some(Standard), deduplication_key |-> None,
     correlation_id |-> Some(StrX), metadata |-> Some(StrX)],
    [file_name |-> StrB, priority |-> Some(Express), deduplication_key |-> Some(StrA),
     correlation_id |-> None, metadata |-> None] }

NoCall == [op |-> "none", arg |-> None]
\* index, member, key and item are the locals of the running call,
\* claimed_keys and items those of get_claimed_items; began and seen record,
\* for a claim_item call, the time at which it began and the members the
\* sorted set had then.
NoLocal == [index |-> 0, member |-> None, key |-> None, item |-> None,
            began |-> 0, seen |-> {}, claimed_keys |-> {}, items |-> {}]

QueueInit ==
  /\ zset = <<>>
  /\ items = <<>>
  /\ claimed = <<>>
  /\ now = Epoch
  /\ locks = [push_lock |-> FALSE, claim_lock |-> FALSE]
  /\ pc = [t \in Tasks |-> "idle"]
  /\ call = [t \in Tasks |-> NoCall]
  /\ local = [t \in Tasks |-> NoLocal]
  /\ result = [t \in Tasks |-> None]
  /\ held = [t \in Tasks |-> None]
  /\ calls = 0
  /\ max_size \in 1..MaxSize

NotParsed == [done |-> FALSE, value |-> None]

CodecIdle == codec_key = None /\ codec_str = None /\ codec_parsed = NotParsed

\* op and file_name name the call; writes are the albums its reconciliation
\* wrote; stored tells that the album's own write or removal succeeded,
\* reconcile_failed that process_duplicates returned an Err, ok that the
\* call returned Ok.
\* A task that runs no put.  While it runs one: pc is the store call it is
\* suspended before, album the album it puts, fetched the albums
\* find_artist_albums returned that matched, original the head of their
\* sort, todo the albums still to write, and alone tells that no other put
\* has run since this one began.
NoPut == [pc |-> "idle", album |-> None, fetched |-> <<>>, original |-> None,
          todo |-> <<>>, alone |-> FALSE]

NoAlbumCall == [op |-> "none", file_name |-> None, writes |-> {},
                stored |-> FALSE, reconcile_failed |-> FALSE, ok |-> TRUE]

\* No album has been put yet.
AlbumsEmpty ==
  /\ album_repository = <<>>
  /\ album_search_index = <<>>
  /\ album_call = NoAlbumCall
  /\ album_faults = 0
  /\ album_tasks = [t \in Tasks |-> NoPut]
  /\ album_puts = 0

\* A task that runs no search-index call.  While it runs one: op names the
\* call, pc is the store call it is suspended before, album the album of a
\* put, before the embeddings the document had when the call was made,
\* todo the embeddings still to write.
NoIndexCall == [op |-> "none", pc |-> "idle", album |-> None, before |-> <<>>,
                todo |-> <<>>, ok |-> TRUE]

\* The search index holds no document.
IndexEmpty ==
  /\ index_docs = <<>>
  /\ index_tasks = [t \in Tasks |-> NoIndexCall]
  /\ index_calls = 0

\* No recommend_albums call.  While one runs: count is
\* recommendation_settings.count, search the albums the search returned,
\* pending those no worker has assessed yet, channel the recommendations
\* sent and not yet received, result what the call returned.
NoRecommend == [pc |-> "idle", count |-> 0, search |-> None, pending |-> {},
                channel |-> <<>>, result |-> None]

\* BoundedMinHeap::new(0), nothing pushed, no recommendation asked.
HeapEmpty ==
  /\ heap = {}
  /\ heap_fed = <<>>
  /\ recommend = NoRecommend

\* No is_file_stale or enqueue_if_stale call.  While one is answered:
\* file_name is the file asked about, stale the answer, at the time of the
\* answer and saved the last_saved_at that was found.
NoStaleCall == [op |-> "none", file_name |-> None, stale |-> FALSE, at |-> 0, saved |-> None]

\* No put_file or delete_file call.  While one runs: pc is the store call
\* it is suspended before, file_metadata what upsert or get_file_metadata
\* returned, ret what the call returns, and before the metadata, the
\* contents and the File stream as they were when the call began.
NoFileCall ==
  [op |-> "none", pc |-> "idle", file_name |-> <<>>, content |-> <<>>,
   correlation_id |-> <<>>, file_metadata |-> <<>>, ret |-> <<>>, before |-> <<>>]

\* A subscriber that has polled nothing: its cursor is before the first
\* event of its stream and it handles no batch.  Of each event of a batch,
\* state tells whether its handler is waiting, running, or has returned Ok
\* or failed, and enqueued how many albums the handler has enqueued.
NoSubscriber == [id |-> "none", cursor |-> 0, batch |-> <<>>]

\* No file has been saved, no event published.
FilesEmpty ==
  /\ file_metadata = <<>>
  /\ stale_call = NoStaleCall
  /\ file_content_store = <<>>
  /\ next_file_id = 1
  /\ file_call = NoFileCall
  /\ event_stream = [File |-> <<>>, Parser |-> <<>>]
  /\ subscriber = NoSubscriber

\* Every page type is stale at once.
NoTtl == [artist |-> 0, album |-> 0, chart |-> 0, search |-> 0]

Init ==
  /\ QueueInit /\ CodecIdle /\ AlbumsEmpty /\ IndexEmpty
  /\ HeapEmpty /\ heap_capacity = 0
  /\ FilesEmpty /\ ttl_days = NoTtl

\* ------------------------------------------------------------ store reads
Restrict(f, S) == [x \in S |-> f[x]]
Put(f, k, v) == [x \in DOMAIN f \cup {k} |-> IF x = k THEN v ELSE f[x]]

\* ZCARD crawler:queue
Zcard == Cardinality(DOMAIN zset)

\* Order of the sorted set: by score, then by member bytes.
ZLess(m, n) == zset[m] < zset[n] \/ (zset[m] = zset[n] /\ LexLess(m, n))

\* ZRANGE crawler:queue position position: the member at that rank, if any.
Zrange(position) ==
  LET hit == {m \in DOMAIN zset : Cardinality({n \in DOMAIN zset : ZLess(n, m)}) = position}
  IN IF hit = {} THEN None ELSE Some(CHOOSE m \in hit : TRUE)

\* A contains that looks for the key among the sorted-set members, which
\* carry the enqueue time in front of it.
ContainsAmongMembers(key) == key \in DOMAIN zset

\* fn contains: HEXISTS crawler:queue:items key
Contains(key) == key \in DOMAIN items

\* An is_full that lets the queue grow one past max_size.
IsFullStrict == Zcard > max_size

\* fn is_full: get_size() >= max_size
IsFull == Zcard >= max_size

\* An is_claimed that asks for the member string without the lease prefix.
IsClaimedNoPrefix(key) == ItemKeyToString(key) \in DOMAIN claimed

\* fn get_claimed_item_count: the number of keys matching
\* "crawler:queue:claimed:*".
GetClaimedItemCount == Cardinality({k \in DOMAIN claimed : k[1] = ClaimedPrefix})

\* fn is_claimed: EXISTS of the lease key.
IsClaimed(key) == ClaimedItemKey(key) \in DOMAIN claimed

Ok(v) == [ok |-> TRUE, value |-> v]
Err(e) == [ok |-> FALSE, value |-> e]

\* The call of task t returns `ret` at source line `line`.
Finish(t, ret, line) ==
  /\ pc' = [pc EXCEPT ![t] = "done"]
  /\ result' = [result EXCEPT ![t] = Some([ret |-> ret, line |-> line])]
  /\ local' = [local EXCEPT ![t] = NoLocal]

\* -------------------------------------------------------------------- push
\* push, lines 191-193: deduplication_key.unwrap_or_else(file_name).
DedupKeyOf(p) ==
  IF p.deduplication_key = None THEN p.file_name ELSE Unwrap(p.deduplication_key)

\* push, lines 190-198: `let _ = self.push_lock.lock().await` takes the
\* guard and drops it in the same statement; then contains().
PushBegin(t, p) ==
  /\ pc[t] = "idle"
  /\ ~locks.push_lock
  /\ locks' = [locks EXCEPT !.push_lock = FALSE]
  /\ call' = [call EXCEPT ![t] = [op |-> "push", arg |-> p]]
  /\ IF Contains(DedupKeyOf(p))
     THEN /\ Finish(t, Ok(None), 197)
     ELSE /\ pc' = [pc EXCEPT ![t] = "push_is_full"]
          /\ UNCHANGED <<result, local>>
  /\ UNCHANGED <<zset, items, claimed, now, held>>

\* push, lines 200-216: is_full(), then the member is built with the
\* current time.
PushIsFull(t) ==
  /\ pc[t] = "push_is_full"
  /\ IF IsFull
     THEN Finish(t, Err("Queue is full"), 201)
     ELSE /\ pc' = [pc EXCEPT ![t] = "push_execute"]
          /\ local' = [local EXCEPT ![t].key =
                         Some([enqueue_time |-> now,
                               deduplication_key |-> DedupKeyOf(call[t].arg)])]
          /\ UNCHANGED result
  /\ UNCHANGED <<zset, items, claimed, now, locks, call, held>>

\* push, lines 205-235: the MULTI/EXEC transaction of ZADD and HSET.
PushExecute(t) ==
  /\ pc[t] = "push_execute"
  /\ LET p == call[t].arg
         score == IF p.priority = None THEN Standard ELSE Unwrap(p.priority)
     IN /\ zset' = Put(zset, ItemKeyToString(Unwrap(local[t].key)), score)
        /\ items' = Put(items, DedupKeyOf(p),
                        [file_name |-> p.file_name, metadata |-> p.metadata,
                         correlation_id |-> p.correlation_id])
  /\ Finish(t, Ok(None), 235)
  /\ UNCHANGED <<claimed, now, locks, call, held>>

\* ------------------------------------------------- at / get_item / peek
\* at(position), lines 272-286: ZRANGE, then the member is parsed.
\* Continues in get_item, or returns Ok(None) / the parse error.
AtZrange(t) ==
  LET r == Zrange(local[t].index)
      Begins == pc[t] = "idle" /\ call'[t].op = "claim_item"
  IN IF r = None
     THEN Finish(t, Ok(None), 284)
     ELSE IF ItemKeyFromStr(Unwrap(r)) = None
     THEN Finish(t, Err("Invalid queue item member string"), 286)
     ELSE /\ pc' = [pc EXCEPT ![t] = "get_item_hget"]
          /\ local' = [local EXCEPT
                         ![t].member = r,
                         ![t].key = ItemKeyFromStr(Unwrap(r)),
                         ![t].began = IF Begins THEN now ELSE @,
                         ![t].seen = IF Begins THEN DOMAIN zset ELSE @]
          /\ UNCHANGED result

\* peek / claim_item entry: claim_item takes and drops the claim_lock guard
\* in one statement (line 320); both start the scan at rank 0.
AtBegin(t, op) ==
  /\ pc[t] = "idle"
  /\ op \in {"peek", "claim_item"}
  /\ op = "claim_item" => ~locks.claim_lock
  /\ locks' = IF op = "claim_item" THEN [locks EXCEPT !.claim_lock = FALSE] ELSE locks
  /\ call' = [call EXCEPT ![t] = [op |-> op, arg |-> None]]
  /\ AtZrange(t)
  /\ UNCHANGED <<zset, items, claimed, now, held>>

\* get_next_unclaimed_item, line 306, after index += 1.
AtNext(t) ==
  /\ pc[t] = "at_zrange"
  /\ AtZrange(t)
  /\ UNCHANGED <<zset, items, claimed, now, locks, call, held>>

\* struct QueueItem built by get_item, lines 253-261.
QueueItem(key, record, priority) ==
  [item_key |-> key, enqueue_time |-> key.enqueue_time,
   deduplication_key |-> key.deduplication_key, file_name |-> record.file_name,
   correlation_id |-> record.correlation_id, metadata |-> record.metadata,
   priority |-> priority]

\* get_item, lines 240-247: HGET of the record by deduplication key.
GetItemHget(t) ==
  /\ pc[t] = "get_item_hget"
  /\ LET k == Unwrap(local[t].key).deduplication_key
     IN IF k \notin DOMAIN items
        THEN Finish(t, Ok(None), 245)
        ELSE /\ pc' = [pc EXCEPT ![t] = "get_item_zscore"]
             /\ local' = [local EXCEPT ![t].item = Some(items[k])]
             /\ UNCHANGED result
  /\ UNCHANGED <<zset, items, claimed, now, locks, call, held>>

\* get_item, lines 248-261: ZSCORE (Standard when absent); peek returns the
\* item, get_next_unclaimed_item goes on to is_claimed.
GetItemZscore(t) ==
  /\ pc[t] = "get_item_zscore"
  /\ LET m == Unwrap(local[t].member)
         score == IF m \in DOMAIN zset THEN zset[m] ELSE Standard
         item == QueueItem(Unwrap(local[t].key), Unwrap(local[t].item),
                           Unwrap(PriorityTryFrom(score)))
     IN IF call[t].op = "peek"
        THEN Finish(t, Ok(Some(item)), 253)
        ELSE /\ pc' = [pc EXCEPT ![t] = "is_claimed"]
             /\ local' = [local EXCEPT ![t].item = Some(item)]
             /\ UNCHANGED result
  /\ UNCHANGED <<zset, items, claimed, now, locks, call, held>>

\* ------------------------------------------------------------- claim_item
\* get_next_unclaimed_item, lines 311-314.
ClaimIsClaimed(t) ==
  /\ pc[t] = "is_claimed"
  /\ IF ~IsClaimed(Unwrap(local[t].key))
     THEN pc' = [pc EXCEPT ![t] = "claim_setex"] /\ UNCHANGED local
     ELSE /\ pc' = [pc EXCEPT ![t] = "at_zrange"]
          /\ local' = [local EXCEPT ![t].index = @ + 1, ![t].member = None,
                                    ![t].key = None, ![t].item = None]
  /\ UNCHANGED <<zset, items, claimed, now, locks, call, result, held>>

\* A claim_item that takes the claimed member out of the sorted set.
ClaimSetexPops(t) ==
  /\ pc[t] = "claim_setex"
  /\ LET item == Unwrap(local[t].item)
     IN /\ claimed' = Put(claimed, ClaimedItemKey(item.item_key), now + ClaimTtl)
        /\ zset' = Restrict(zset, DOMAIN zset \ {ItemKeyToString(item.item_key)})
        /\ Finish(t, Ok(Some(item)), 336)
        /\ held' = [held EXCEPT ![t] = Some(item.item_key)]
  /\ UNCHANGED <<items, now, locks, call>>

\* claim_item, lines 328-336: SETEX of the lease key, then Ok(Some(item)).
ClaimSetex(t) ==
  /\ pc[t] = "claim_setex"
  /\ LET item == Unwrap(local[t].item)
     IN /\ claimed' = Put(claimed, ClaimedItemKey(item.item_key), now + ClaimTtl)
        /\ Finish(t, Ok(Some(item)), 336)
        /\ held' = [held EXCEPT ![t] = Some(item.item_key)]
  /\ UNCHANGED <<zset, items, now, locks, call>>

\* ------------------------------------------------------ delete_item, empty
\* A delete_item whose transaction leaves out the DEL of the lease key.
DeleteItemKeepsLease(t) ==
  /\ pc[t] = "idle"
  /\ held[t] # None
  /\ LET key == Unwrap(held[t])
     IN /\ zset' = Restrict(zset, DOMAIN zset \ {ItemKeyToString(key)})
        /\ items' = Restrict(items, DOMAIN items \ {key.deduplication_key})
        /\ call' = [call EXCEPT ![t] = [op |-> "delete_item", arg |-> key]]
  /\ Finish(t, Ok(None), 351)
  /\ held' = [held EXCEPT ![t] = None]
  /\ UNCHANGED <<claimed, now, locks>>

\* delete_item(key), lines 340-352: one transaction of ZREM, HDEL and DEL.
\* A worker deletes the item it claimed.
DeleteItem(t) ==
  /\ pc[t] = "idle"
  /\ held[t] # None
  /\ LET key == Unwrap(held[t])
     IN /\ zset' = Restrict(zset, DOMAIN zset \ {ItemKeyToString(key)})
        /\ items' = Restrict(items, DOMAIN items \ {key.deduplication_key})
        /\ claimed' = Restrict(claimed, DOMAIN claimed \ {ClaimedItemKey(key)})
        /\ call' = [call EXCEPT ![t] = [op |-> "delete_item", arg |-> key]]
  /\ Finish(t, Ok(None), 351)
  /\ held' = [held EXCEPT ![t] = None]
  /\ UNCHANGED <<now, locks>>

\* empty(), lines 294-300: DEL of the sorted set and of the hash.
Empty(t) ==
  /\ pc[t] = "idle"
  /\ zset' = <<>>
  /\ items' = <<>>
  /\ call' = [call EXCEPT ![t] = [op |-> "empty", arg |-> None]]
  /\ Finish(t, Ok(None), 299)
  /\ UNCHANGED <<claimed, now, locks, held>>

\* ------------------------------------------------------- get_claimed_items
\* key.replace("crawler:queue:claimed:", ""), line 361.
StripClaimedPrefix(k) == SelectSeq(k, LAMBDA c : c # ClaimedPrefix)

\* connection.ttl(key) as u32, lines 378-381: the seconds the key has left;
\* when the key does not exist, -2 cast to u32, that is 4294967294, for
\* which the largest integer of the model checker stands.
TtlAsU32(k) == IF k \in DOMAIN claimed THEN claimed[k] - now ELSE 2147483647

\* get_claimed_items, lines 356-363: KEYS crawler:queue:claimed:*, each key
\* stripped of the prefix and parsed; the unwrap panics on a parse error.
GciKeys(t) ==
  /\ pc[t] = "idle"
  /\ call' = [call EXCEPT ![t] = [op |-> "get_claimed_items", arg |-> None]]
  /\ LET keys == {k \in DOMAIN claimed : k[1] = ClaimedPrefix}
         parsed == {ItemKeyFromStr(StripClaimedPrefix(k)) : k \in keys}
     IN IF None \in parsed
        THEN Finish(t, Err("panic: unwrap on Err"), 361)
        ELSE /\ pc' = [pc EXCEPT ![t] = "gci_get_item"]
             /\ local' = [local EXCEPT ![t].claimed_keys = {Unwrap(p) : p \in parsed}]
             /\ UNCHANGED result
  /\ UNCHANGED <<zset, items, claimed, now, locks, held>>

\* A get_claimed_items that asks the sorted set, not the item hash, whether
\* a leased ItemKey is still there.
GciGetItemByMember(t) ==
  /\ pc[t] = "gci_get_item"
  /\ LET got == {key \in local[t].claimed_keys : ItemKeyToString(key) \in DOMAIN zset
                                                   /\ key.deduplication_key \in DOMAIN items}
     IN local' = [local EXCEPT ![t].items =
                    {QueueItem(key, items[key.deduplication_key],
                               Unwrap(PriorityTryFrom(zset[ItemKeyToString(key)]))) : key \in got}]
  /\ pc' = [pc EXCEPT ![t] = "gci_ttl"]
  /\ UNCHANGED <<zset, items, claimed, now, locks, call, result, held>>

\* get_claimed_items, lines 365-373: get_item of every key; the keys whose
\* get_item is not Ok(Some(item)) are dropped.
GciGetItem(t) ==
  /\ pc[t] = "gci_get_item"
  /\ LET score(key) == IF ItemKeyToString(key) \in DOMAIN zset
                       THEN zset[ItemKeyToString(key)] ELSE Standard
         got == {key \in local[t].claimed_keys :
                   /\ key.deduplication_key \in DOMAIN items
                   /\ PriorityTryFrom(score(key)) # None}
     IN local' = [local EXCEPT ![t].items =
                    {QueueItem(key, items[key.deduplication_key],
                               Unwrap(PriorityTryFrom(score(key)))) : key \in got}]
  /\ pc' = [pc EXCEPT ![t] = "gci_ttl"]
  /\ UNCHANGED <<zset, items, claimed, now, locks, call, result, held>>

\* get_claimed_items, lines 375-386: TTL of every item's lease key.  The
\* Vec is in the order KEYS gave, which the store leaves open: the result
\* is kept as a set.
GciTtl(t) ==
  /\ pc[t] = "gci_ttl"
  /\ Finish(t, Ok({[item |-> i, claim_ttl_seconds |-> TtlAsU32(ClaimedItemKey(i.item_key))] :
                     i \in local[t].items}), 386)
  /\ UNCHANGED <<zset, items, claimed, now, locks, call, held>>

GetClaimedItems(t) == GciKeys(t) \/ GciGetItem(t) \/ GciTtl(t)

\* ------------------------------------------------------------ environment
\* The caller takes the returned value.
Return(t) ==
  /\ pc[t] = "done"
  /\ pc' = [pc EXCEPT ![t] = "idle"]
  /\ result' = [result EXCEPT ![t] = None]
  /\ call' = [call EXCEPT ![t] = NoCall]
  /\ UNCHANGED <<zset, items, claimed, now, locks, local, held>>

\* One second passes, up to `horizon` seconds after the start; lease keys
\* whose TTL has run out are removed.
TickUntil(horizon) ==
  /\ now < Epoch + horizon
  /\ now' = now + 1
  /\ claimed' = Restrict(claimed, {k \in DOMAIN claimed : claimed[k] > now + 1})
  /\ UNCHANGED <<zset, items, locks, pc, call, local, result, held>>

Tick == TickUntil(MaxTicks)

NoneDone == \A t \in Tasks : pc[t] # "done"

StepWith(t, inputs) ==
  \/ \E p \in inputs : PushBegin(t, p)
  \/ PushIsFull(t)
  \/ PushExecute(t)
  \/ \E op \in {"peek", "claim_item"} : AtBegin(t, op)
  \/ AtNext(t)
  \/ GetItemHget(t)
  \/ GetItemZscore(t)
  \/ ClaimIsClaimed(t)
  \/ ClaimSetex(t)
  \/ DeleteItem(t)
  \/ Empty(t)

Step(t) == StepWith(t, PushInputs)

\* A run of interleaving tasks makes at most `budget` calls.
CountUpTo(t, budget) ==
  IF pc[t] = "idle" THEN calls < budget /\ calls' = calls + 1 ELSE UNCHANGED calls

Count(t) == CountUpTo(t, MaxCalls)

\* Tasks interleave at every store call; a finished call returns at once.
Next ==
  \/ \E t \in Tasks : Return(t) /\ UNCHANGED <<calls, fixed>>
  \/ NoneDone /\ \E t \in Tasks : Step(t) /\ Count(t) /\ UNCHANGED fixed
  \/ NoneDone /\ Tick /\ UNCHANGED <<calls, fixed>>

Spec == Init /\ [][Next]_vars

\* One call at a time: a task starts or continues a call only while every
\* other task is idle, and the clock moves between calls.
Quiet(t) == \A u \in Tasks \ {t} : pc[u] = "idle"

SeqNext ==
  \/ \E t \in Tasks : Return(t) /\ UNCHANGED <<calls, fixed>>
  \/ \E t \in Tasks : Quiet(t) /\ Step(t) /\ UNCHANGED <<calls, fixed>>
  \/ (\A t \in Tasks : pc[t] = "idle") /\ Tick /\ UNCHANGED <<calls, fixed>>

SeqSpec == Init /\ [][SeqNext]_vars

\* One call at a time on a single deduplication key, for one lease period
\* longer: the run in which a lease taken late still expires.
OneKeyInputs == {p \in PushInputs : DedupKeyOf(p) = StrA}

LeaseNext ==
  \/ \E t \in Tasks : Return(t) /\ UNCHANGED <<calls, fixed>>
  \/ \E t \in Tasks : Quiet(t) /\ StepWith(t, OneKeyInputs) /\ UNCHANGED <<calls, fixed>>
  \/ (\A t \in Tasks : pc[t] = "idle") /\ TickUntil(MaxTicks + ClaimTtl)
       /\ UNCHANGED <<calls, fixed>>

LeaseSpec == Init /\ [][LeaseNext]_vars

\* A short race: tasks interleave at every store call on a single
\* deduplication key, two calls fewer than in Spec.
RaceNext ==
  \/ \E t \in Tasks : Return(t) /\ UNCHANGED <<calls, fixed>>
  \/ NoneDone /\ \E t \in Tasks : StepWith(t, OneKeyInputs) /\ CountUpTo(t, MaxCalls - 2)
       /\ UNCHANGED fixed
  \/ NoneDone /\ Tick /\ UNCHANGED <<calls, fixed>>

RaceSpec == Init /\ [][RaceNext]_vars

\* ------------------------------------------------------- ItemKey as text
\* The ItemKeys and the strings handed to the conversions: deduplication
\* keys and strings of at most MaxKeyLen and MaxStrLen symbols over the
\* letter a, the digit 0 and the delimiter.
Symbols == {97, 48, Delim}

StringsUpTo(n) == UNION {[1..k -> Symbols] : k \in 0..n}

KeyInputs ==
  {[enqueue_time |-> e, deduplication_key |-> d] :
     e \in {0, 7, Epoch}, d \in StringsUpTo(MaxKeyLen)}

CodecInit ==
  /\ QueueInit
  /\ AlbumsEmpty
  /\ IndexEmpty
  /\ HeapEmpty
  /\ heap_capacity = 0
  /\ FilesEmpty
  /\ ttl_days = NoTtl
  /\ codec_parsed = NotParsed
  /\ \/ codec_key \in {Some(k) : k \in KeyInputs} /\ codec_str = None
     \/ codec_key = None /\ codec_str \in {Some(x) : x \in StringsUpTo(MaxStrLen)}

\* key.to_string()
CodecToString ==
  /\ codec_key # None /\ codec_str = None
  /\ codec_str' = Some(ItemKeyToString(Unwrap(codec_key)))
  /\ UNCHANGED <<zset, items, claimed, now, locks, pc, call, local, result, held, calls,
                 max_size, codec_key, codec_parsed, albums, index, ranking, crawl, bus>>

\* s.parse::<ItemKey>()
CodecFromStr ==
  /\ codec_str # None /\ ~codec_parsed.done
  /\ codec_parsed' = [done |-> TRUE, value |-> ItemKeyFromStr(Unwrap(codec_str))]
  /\ UNCHANGED <<zset, items, claimed, now, locks, pc, call, local, result, held, calls,
                 max_size, codec_key, codec_str, albums, index, ranking, crawl, bus>>

CodecNext == CodecToString \/ CodecFromStr

CodecSpec == CodecInit /\ [][CodecNext]_vars

\* One call at a time, get_claimed_items among the calls; every push
\* leaves the deduplication key to default to the file name.
PlainInputs == {p \in PushInputs : p.deduplication_key = None}

ReportNext ==
  \/ \E t \in Tasks : Return(t) /\ UNCHANGED <<calls, fixed>>
  \/ \E t \in Tasks : Quiet(t) /\ StepWith(t, PlainInputs) /\ UNCHANGED <<calls, fixed>>
  \/ \E t \in Tasks : Quiet(t) /\ GetClaimedItems(t) /\ UNCHANGED <<calls, fixed>>
  \/ (\A t \in Tasks : pc[t] = "idle") /\ Tick /\ UNCHANGED <<calls, fixed>>

ReportSpec == Init /\ [][ReportNext]_vars

\* ----------------------------------------------------- album read model
\* (core/src/albums/album_interactor.rs)  The calls of AlbumInteractor run
\* one at a time, and no store call fails.
\*
\* File names of albums and of artists, and album names: "K" and "k" differ
\* in ASCII case only, "O" is another name.
AlbumFiles == {StrA, StrB, StrX}
ArtistP == <<112>>
ArtistQ == <<113>>
NameK == <<75>>
NameLowerK == <<107>>
NameO == <<79>>

\* The name and the artists of the parsed album of a file: a is "K" and b
\* is "k", both by p; x is "K" by p, "K" by q or "O" by p.
AlbumPages ==
  { <<StrA, NameK, {ArtistP}>>, <<StrB, NameLowerK, {ArtistP}>>,
    <<StrX, NameK, {ArtistP}>>, <<StrX, NameK, {ArtistQ}>>, <<StrX, NameO, {ArtistP}>> }

\* The AlbumReadModels handed to put: built from a parsed album, with no
\* duplicate linkage.
AlbumInputs ==
  {[file_name |-> page[1], name |-> page[2], artists |-> page[3], rating_count |-> r,
    duplicate_of |-> None, duplicates |-> <<>>] :
     page \in AlbumPages, r \in 1..MaxRatingCount}

\* The queue and the ItemKey conversions.
core == <<zset, items, claimed, now, locks, pc, call, local, result, held, calls,
          max_size, codec_key, codec_str, codec_parsed>>

\* Everything but the album read model.
queue == <<core, index, ranking, crawl, bus>>

Range(s) == {s[i] : i \in 1..Len(s)}

\* AlbumReadModel::ascii_name(): the name transliterated to ASCII; the
\* names of the model are ASCII already.
AsciiName(name) == name

\* u8::to_ascii_lowercase
ToAsciiLowercase(c) == IF c \in 65..90 THEN c + 32 ELSE c

\* str::eq_ignore_ascii_case
EqIgnoreAsciiCase(a, b) ==
  /\ Len(a) = Len(b)
  /\ \A i \in 1..Len(a) : ToAsciiLowercase(a[i]) = ToAsciiLowercase(b[i])

\* AlbumRepository::find_artist_albums: the file names of the albums that
\* have one of the artists.
FindArtistAlbums(repository, artist_file_names) ==
  {f \in DOMAIN repository : repository[f].artists \cap artist_file_names # {}}

\* potential_duplicates: the artists' albums with the album's name.
PotentialDuplicates(repository, album) ==
  {f \in FindArtistAlbums(repository, album.artists) :
     EqIgnoreAsciiCase(AsciiName(repository[f].name), AsciiName(album.name))}

\* The head of a sort by rating_count with the smallest first.
OriginalsAscending(repository, matches) ==
  {f \in matches :
     \A g \in matches : repository[f].rating_count <= repository[g].rating_count}

\* duplicate_albums.remove(0) after the stable sort by rating_count,
\* largest first: an album of the largest rating_count, the first of them
\* in the order find_artist_albums returned, which is any of them.
Originals(repository, matches) ==
  {f \in matches :
     \A g \in matches : repository[g].rating_count <= repository[f].rating_count}

RECURSIVE SortFileNames(_)
\* duplicates.sort()
SortFileNames(S) ==
  IF S = {} THEN <<>>
  ELSE LET m == CHOOSE m \in S : \A n \in S \ {m} : LexLess(m, n)
       IN <<m>> \o SortFileNames(S \ {m})

\* AlbumRepository::set_duplicates
SetDuplicates(repository, file_name, duplicates) ==
  [repository EXCEPT ![file_name].duplicates = duplicates]

\* AlbumRepository::set_duplicate_of
SetDuplicateOf(repository, file_name, duplicate_of) ==
  [repository EXCEPT ![file_name].duplicate_of = Some(duplicate_of)]

\* The albums process_duplicates writes when original is the head: the
\* original if its duplicates differ, and every other match whose
\* duplicate_of is not the original.
Written(repository, matches, original) ==
  {f \in matches :
     IF f = original
     THEN repository[f].duplicates # SortFileNames(matches \ {original})
     ELSE repository[f].duplicate_of # Some(original)}

\* The stores after process_duplicates with original as the head.  A
\* written album is re-indexed from the copy find_artist_albums returned
\* with the one field changed.
Reconcile(stores, matches, original) ==
  LET duplicates == SortFileNames(matches \ {original})
      written == Written(stores.repository, matches, original)
      linked(f, record) ==
        IF f = original THEN [record EXCEPT !.duplicates = duplicates]
        ELSE [record EXCEPT !.duplicate_of = Some(original)]
      set(f, repository) ==
        IF f = original THEN SetDuplicates(repository, f, duplicates)
        ELSE SetDuplicateOf(repository, f, original)
  IN [repository |->
        [f \in DOMAIN stores.repository |->
           IF f \in written THEN set(f, stores.repository)[f] ELSE stores.repository[f]],
      search_index |->
        [f \in DOMAIN stores.search_index \cup written |->
           IF f \in written THEN linked(f, stores.repository[f])
           ELSE stores.search_index[f]],
      writes |-> written]

\* async fn process_duplicates: the stores it can leave.
ProcessDuplicates(stores, album) ==
  LET matches == PotentialDuplicates(stores.repository, album)
  IN IF Cardinality(matches) <= 1 THEN {[stores EXCEPT !.writes = {}]}
     ELSE {Reconcile(stores, matches, original) :
             original \in Originals(stores.repository, matches)}

\* async fn process_duplicates_by_file_name: get fails for a file name the
\* repository does not hold, and the caller drops the error.
ProcessDuplicatesByFileName(stores, file_name) ==
  IF file_name \notin DOMAIN stores.repository THEN {[stores EXCEPT !.writes = {}]}
  ELSE ProcessDuplicates(stores, stores.repository[file_name])

\* put propagates the Err of process_duplicates.
PutPropagates(reconcile_failed) == ~reconcile_failed

\* The match that ends put: Ok(_) => Ok(()), Err(err) => { error!(..); Ok(()) };
\* TRUE stands for Ok(()).
PutReturns(reconcile_failed) == IF reconcile_failed THEN TRUE ELSE TRUE

\* The end of delete: if let Err(err) = .. { error!(..) } and then Ok(()).
DeleteReturns(reconcile_failed) == IF reconcile_failed THEN TRUE ELSE TRUE

\* pub async fn put, when no store call fails
AlbumInteractorPut(album) ==
  LET stored == [repository |-> Put(album_repository, album.file_name, album),
                 search_index |-> Put(album_search_index, album.file_name, album),
                 writes |-> {}]
  IN \E out \in ProcessDuplicates(stored, album) :
       /\ album_repository' = out.repository
       /\ album_search_index' = out.search_index
       /\ album_call' = [op |-> "put", file_name |-> Some(album.file_name),
                         writes |-> out.writes, stored |-> TRUE,
                         reconcile_failed |-> FALSE, ok |-> PutReturns(FALSE)]
       /\ UNCHANGED <<queue, album_faults, album_tasks, album_puts>>

\* The duplicate_of.as_ref().or(duplicates.first()) of delete is Some.
Linked(album) == album.duplicate_of # None \/ album.duplicates # <<>>

\* pub async fn delete, when no store call fails
AlbumInteractorDelete(file_name) ==
  /\ file_name \in DOMAIN album_repository
  /\ LET album == album_repository[file_name]
         removed ==
           [repository |-> Restrict(album_repository, DOMAIN album_repository \ {file_name}),
            search_index |->
              Restrict(album_search_index, DOMAIN album_search_index \ {file_name}),
            writes |-> {}]
     IN \E out \in (IF Linked(album) THEN ProcessDuplicatesByFileName(removed, file_name)
                    ELSE {removed}) :
          /\ album_repository' = out.repository
          /\ album_search_index' = out.search_index
          /\ album_call' =
               LET failed == Linked(album) /\ file_name \notin DOMAIN removed.repository
               IN [op |-> "delete", file_name |-> Some(file_name), writes |-> out.writes,
                   stored |-> TRUE, reconcile_failed |-> failed,
                   ok |-> DeleteReturns(failed)]
          /\ UNCHANGED <<queue, album_faults, album_tasks, album_puts>>

\* process_duplicates once more, on an album the repository holds.
ProcessDuplicatesAgain(file_name) ==
  /\ file_name \in DOMAIN album_repository
  /\ \E out \in ProcessDuplicatesByFileName(
                  [repository |-> album_repository, search_index |-> album_search_index,
                   writes |-> {}], file_name) :
       /\ album_repository' = out.repository
       /\ album_search_index' = out.search_index
       /\ album_call' = [op |-> "process_duplicates", file_name |-> Some(file_name),
                         writes |-> out.writes, stored |-> FALSE,
                         reconcile_failed |-> FALSE, ok |-> TRUE]
       /\ UNCHANGED <<queue, album_faults, album_tasks, album_puts>>

\* The orders in which the loop of process_duplicates can meet the albums
\* of S: largest rating_count first, equal ones in any order.
DescendingOrders(repository, S) ==
  {order \in [1..Cardinality(S) -> S] :
     /\ \A i, j \in 1..Cardinality(S) : i # j => order[i] # order[j]
     /\ \A i, j \in 1..Cardinality(S) :
          i < j => repository[order[i]].rating_count >= repository[order[j]].rating_count}

\* The stores after process_duplicates, with original as the head and the
\* other matches in `order`, has failed at its k-th writing store call.  The
\* calls are, for each album to write, set_duplicates or set_duplicate_of
\* on the repository and then put on the search index.
ReconcileUntil(stores, matches, original, order, k) ==
  LET whole == Reconcile(stores, matches, original)
      files == SelectSeq(<<original>> \o order, LAMBDA f : f \in whole.writes)
      set == {files[i] : i \in 1..(k \div 2)}
      indexed == {files[i] : i \in 1..((k - 1) \div 2)}
  IN [repository |->
        [f \in DOMAIN stores.repository |->
           IF f \in set THEN whole.repository[f] ELSE stores.repository[f]],
      search_index |->
        [f \in DOMAIN stores.search_index \cup indexed |->
           IF f \in indexed THEN whole.search_index[f] ELSE stores.search_index[f]],
      writes |-> set]

\* async fn process_duplicates when a store call fails: find_artist_albums,
\* or one of the writing calls.
ProcessDuplicatesFailing(stores, album) ==
  LET matches == PotentialDuplicates(stores.repository, album)
  IN {[stores EXCEPT !.writes = {}]} \cup
     (IF Cardinality(matches) <= 1 THEN {}
      ELSE UNION {
             UNION {
               {ReconcileUntil(stores, matches, original, order, k) :
                  k \in 1..(2 * Cardinality(Written(stores.repository, matches, original)))} :
               order \in DescendingOrders(stores.repository, matches \ {original})} :
             original \in Originals(stores.repository, matches)})

\* pub async fn put, when a store call fails: the put on the repository,
\* the put on the search index, or a call of process_duplicates.
AlbumInteractorPutFailing(album) ==
  LET failed(stored) == [op |-> "put", file_name |-> Some(album.file_name), writes |-> {},
                         stored |-> stored, reconcile_failed |-> FALSE, ok |-> FALSE]
      stored == [repository |-> Put(album_repository, album.file_name, album),
                 search_index |-> Put(album_search_index, album.file_name, album),
                 writes |-> {}]
  IN /\ \/ /\ UNCHANGED <<album_repository, album_search_index>>
           /\ album_call' = failed(FALSE)
        \/ /\ album_repository' = stored.repository
           /\ UNCHANGED album_search_index
           /\ album_call' = failed(FALSE)
        \/ \E out \in ProcessDuplicatesFailing(stored, album) :
             /\ album_repository' = out.repository
             /\ album_search_index' = out.search_index
             /\ album_call' = [op |-> "put", file_name |-> Some(album.file_name),
                               writes |-> out.writes, stored |-> TRUE,
                               reconcile_failed |-> TRUE, ok |-> PutReturns(TRUE)]
     /\ album_faults < MaxFaults
     /\ album_faults' = album_faults + 1
     /\ UNCHANGED <<queue, album_tasks, album_puts>>

\* pub async fn delete, when a call before the reconciliation fails: get
\* (also for a file name the repository does not hold) or the delete on
\* the repository, or the delete on the search index.
AlbumInteractorDeleteFailing(file_name) ==
  LET failed == [op |-> "delete", file_name |-> Some(file_name), writes |-> {},
                 stored |-> FALSE, reconcile_failed |-> FALSE, ok |-> FALSE]
  IN /\ \/ /\ UNCHANGED <<album_repository, album_search_index>>
           /\ album_call' = failed
        \/ /\ file_name \in DOMAIN album_repository
           /\ album_repository' =
                Restrict(album_repository, DOMAIN album_repository \ {file_name})
           /\ UNCHANGED album_search_index
           /\ album_call' = failed
     /\ album_faults < MaxFaults
     /\ album_faults' = album_faults + 1
     /\ UNCHANGED <<queue, album_tasks, album_puts>>

AlbumInit == Init /\ max_size = 1

\* The two albums that are always of one duplicate group: a and b.
GroupInputs == {album \in AlbumInputs : album.file_name \in {StrA, StrB}}

FaultNext ==
  \/ \E album \in GroupInputs : AlbumInteractorPut(album)
  \/ \E file_name \in {StrA, StrB} : AlbumInteractorDelete(file_name)
  \/ \E album \in GroupInputs : AlbumInteractorPutFailing(album)
  \/ \E file_name \in {StrA, StrB} : AlbumInteractorDeleteFailing(file_name)

FaultSpec == AlbumInit /\ [][FaultNext]_vars

AlbumNext ==
  \/ \E album \in AlbumInputs : AlbumInteractorPut(album)
  \/ \E file_name \in AlbumFiles : AlbumInteractorDelete(file_name)

AlbumSpec == AlbumInit /\ [][AlbumNext]_vars

\* put of an album whose rating_count no other stored album has: the head
\* of the sort by rating_count is then the same in whatever order
\* find_artist_albums returns the albums.
PutUntied(album) ==
  /\ \A f \in DOMAIN album_repository \ {album.file_name} :
       album_repository[f].rating_count # album.rating_count
  /\ AlbumInteractorPut(album)

\* Albums are put and never deleted.
PutNext == \E album \in AlbumInputs : PutUntied(album)

PutSpec == AlbumInit /\ [][PutNext]_vars

UntiedNext ==
  \/ \E album \in AlbumInputs : PutUntied(album)
  \/ \E file_name \in AlbumFiles : AlbumInteractorDelete(file_name)

UntiedSpec == AlbumInit /\ [][UntiedNext]_vars

ReconcileNext ==
  \/ \E album \in AlbumInputs : AlbumInteractorPut(album)
  \/ \E file_name \in AlbumFiles : AlbumInteractorDelete(file_name)
  \/ \E file_name \in AlbumFiles : ProcessDuplicatesAgain(file_name)

ReconcileSpec == AlbumInit /\ [][ReconcileNext]_vars


\* ------------------------------------------ puts that run concurrently
\* A put suspends before every store call; the calls of the other task take
\* effect in between.  No store call fails.
\*
\* The albums by p named "K" or "k": the members of one duplicate group.
MemberInputs ==
  {album \in AlbumInputs :
     album.artists = {ArtistP} /\ EqIgnoreAsciiCase(album.name, NameK)}

\* put returns.
ConcurrentPutReturn(t) ==
  /\ album_tasks' = [album_tasks EXCEPT ![t] = NoPut]
  /\ album_call' = [op |-> "put", file_name |-> Some(Unwrap(album_tasks[t].album).file_name),
                    writes |-> {}, stored |-> TRUE, reconcile_failed |-> FALSE,
                    ok |-> PutReturns(FALSE)]

\* self.album_repository.put(album.clone())
ConcurrentPutBegin(t, album) ==
  /\ album_tasks[t].pc = "idle"
  /\ album_puts < MaxPuts
  /\ album_puts' = album_puts + 1
  /\ album_repository' = Put(album_repository, album.file_name, album)
  /\ album_tasks' =
       [u \in Tasks |->
          IF u = t
          THEN [NoPut EXCEPT !.pc = "index_put", !.album = Some(album),
                             !.alone = \A v \in Tasks \ {t} : album_tasks[v].pc = "idle"]
          ELSE [album_tasks[u] EXCEPT !.alone = FALSE]]
  /\ UNCHANGED <<album_search_index, album_call, album_faults, queue>>

\* self.album_search_index.put(album.clone())
ConcurrentPutIndex(t) ==
  /\ album_tasks[t].pc = "index_put"
  /\ LET album == Unwrap(album_tasks[t].album)
     IN album_search_index' = Put(album_search_index, album.file_name, album)
  /\ album_tasks' = [album_tasks EXCEPT ![t].pc = "find"]
  /\ UNCHANGED <<album_repository, album_call, album_faults, album_puts, queue>>

\* find_artist_albums, the filter, the sort and the comparison of the
\* original's duplicates: everything up to the first writing call.
ConcurrentPutFind(t) ==
  /\ album_tasks[t].pc = "find"
  /\ LET matches == PotentialDuplicates(album_repository, Unwrap(album_tasks[t].album))
     IN IF Cardinality(matches) <= 1
        THEN ConcurrentPutReturn(t)
        ELSE \E original \in Originals(album_repository, matches) :
             \E order \in DescendingOrders(album_repository, matches \ {original}) :
               LET todo == SelectSeq(<<original>> \o order,
                             LAMBDA f : f \in Written(album_repository, matches, original))
               IN IF todo = <<>>
                  THEN ConcurrentPutReturn(t)
                  ELSE /\ album_tasks' =
                            [album_tasks EXCEPT ![t].pc = "set",
                                                ![t].fetched = Restrict(album_repository, matches),
                                                ![t].original = Some(original),
                                                ![t].todo = todo]
                       /\ UNCHANGED album_call
  /\ UNCHANGED <<album_repository, album_search_index, album_faults, album_puts, queue>>

\* set_duplicates on the original, set_duplicate_of on another match.
ConcurrentPutSet(t) ==
  /\ album_tasks[t].pc = "set"
  /\ LET task == album_tasks[t]
         f == Head(task.todo)
         original == Unwrap(task.original)
     IN album_repository' =
          IF f = original
          THEN SetDuplicates(album_repository, f,
                             SortFileNames(DOMAIN task.fetched \ {original}))
          ELSE SetDuplicateOf(album_repository, f, original)
  /\ album_tasks' = [album_tasks EXCEPT ![t].pc = "reindex"]
  /\ UNCHANGED <<album_search_index, album_call, album_faults, album_puts, queue>>

\* self.album_search_index.put(..) of the fetched copy with the one field
\* changed; then the next album to write, or the return.
ConcurrentPutReindex(t) ==
  /\ album_tasks[t].pc = "reindex"
  /\ LET task == album_tasks[t]
         f == Head(task.todo)
         original == Unwrap(task.original)
         copy == IF f = original
                 THEN [task.fetched[f] EXCEPT
                         !.duplicates = SortFileNames(DOMAIN task.fetched \ {original})]
                 ELSE [task.fetched[f] EXCEPT !.duplicate_of = Some(original)]
     IN /\ album_search_index' = Put(album_search_index, f, copy)
        /\ IF Tail(task.todo) = <<>>
           THEN ConcurrentPutReturn(t)
           ELSE /\ album_tasks' = [album_tasks EXCEPT ![t].pc = "set",
                                                      ![t].todo = Tail(task.todo)]
                /\ UNCHANGED album_call
  /\ UNCHANGED <<album_repository, album_faults, album_puts, queue>>

ConcurrentPutNext ==
  \/ \E t \in Tasks : \E album \in MemberInputs : ConcurrentPutBegin(t, album)
  \/ \E t \in Tasks : ConcurrentPutIndex(t)
  \/ \E t \in Tasks : ConcurrentPutFind(t)
  \/ \E t \in Tasks : ConcurrentPutSet(t)
  \/ \E t \in Tasks : ConcurrentPutReindex(t)

ConcurrentPutSpec == AlbumInit /\ [][ConcurrentPutNext]_vars

\* ------------------------------------------------------- search index
\* (core/src/albums/redis_album_search_index.rs)  One JSON document per
\* album under the key album:{file_name}: the fields of a
\* RedisAlbumReadModel and, under "embeddings", one sub-document per
\* embedding key.  A call suspends before every store call.

\* An AlbumReadModel with the lists that have derived counts.
FullAlbum(file_name, name, rating_count, artists, primary_genres, secondary_genres, descriptors, languages, duplicate_of) ==
  [file_name |-> file_name, name |-> name, rating_count |-> rating_count,
   artists |-> artists, primary_genres |-> primary_genres,
   secondary_genres |-> secondary_genres, descriptors |-> descriptors,
   languages |-> languages, duplicate_of |-> duplicate_of, duplicates |-> <<>>]

\* impl Into<RedisAlbumReadModel> for AlbumReadModel, with every list's
\* count taken from the primary genres.
IntoRedisAlbumReadModelOneCount(album) ==
  [name_tag |-> album.name,
   name |-> album.name,
   file_name |-> album.file_name,
   rating_count |-> album.rating_count,
   artists |-> album.artists,
   artist_count |-> Len(album.primary_genres),
   primary_genres |-> album.primary_genres,
   primary_genre_count |-> Len(album.primary_genres),
   secondary_genres |-> album.secondary_genres,
   secondary_genre_count |-> Len(album.primary_genres),
   descriptors |-> album.descriptors,
   descriptor_count |-> Len(album.primary_genres),
   languages |-> album.languages,
   language_count |-> Len(album.primary_genres),
   duplicate_of |-> album.duplicate_of,
   duplicates |-> album.duplicates,
   is_duplicate |-> IF album.duplicate_of # None THEN 1 ELSE 0]

\* impl Into<RedisAlbumReadModel> for AlbumReadModel (the lengths of the
\* model are far below the u32 range of `as u32`).
IntoRedisAlbumReadModel(album) ==
  [name_tag |-> album.name,
   name |-> album.name,
   file_name |-> album.file_name,
   rating_count |-> album.rating_count,
   artists |-> album.artists,
   artist_count |-> Len(album.artists),
   primary_genres |-> album.primary_genres,
   primary_genre_count |-> Len(album.primary_genres),
   secondary_genres |-> album.secondary_genres,
   secondary_genre_count |-> Len(album.secondary_genres),
   descriptors |-> album.descriptors,
   descriptor_count |-> Len(album.descriptors),
   languages |-> album.languages,
   language_count |-> Len(album.languages),
   duplicate_of |-> album.duplicate_of,
   duplicates |-> album.duplicates,
   is_duplicate |-> IF album.duplicate_of # None THEN 1 ELSE 0]

\* The document "{}" that ensure_album_root writes.
EmptyDocument == [album |-> None, embeddings |-> None]

\* The embeddings of the document of file_name: embedding key -> vector.
DocEmbeddings(docs, file_name) ==
  IF file_name \in DOMAIN docs /\ docs[file_name].embeddings # None
  THEN Unwrap(docs[file_name].embeddings)
  ELSE <<>>

\* The albums put in a run of the search index: two parses of one page.
IndexAlbums ==
  {FullAlbum(StrA, NameK, r, <<ArtistP>>, <<StrX>>, <<>>, <<StrX, StrX>>, <<>>, None) :
     r \in 1..2}

\* The AlbumEmbeddings handed to put_embedding.
EmbeddingInputs ==
  [file_name : {StrA}, key : {"e1", "e2"}, embedding : {<<0>>, <<1>>}]

\* The call of task t returns Ok (ok) or an Err; the task stays marked
\* with the call it made last and with what it was called with.
IndexReturn(t, ok) ==
  index_tasks' = [index_tasks EXCEPT ![t] =
    [NoIndexCall EXCEPT !.op = index_tasks[t].op, !.ok = ok,
                        !.album = index_tasks[t].album,
                        !.todo = IF index_tasks[t].op = "put_embedding"
                                 THEN index_tasks[t].todo ELSE <<>>]]

\* AlbumSearchIndex::put is called.
IndexPutCall(t, album) ==
  /\ index_tasks[t].pc = "idle"
  /\ index_calls < MaxIndexCalls
  /\ index_calls' = index_calls + 1
  /\ index_tasks' = [index_tasks EXCEPT ![t] =
       [NoIndexCall EXCEPT !.op = "put", !.pc = "get_embeddings", !.album = Some(album),
                           !.before = DocEmbeddings(index_docs, album.file_name)]]
  /\ UNCHANGED <<index_docs, core, albums, ranking, crawl, bus>>

\* get_embeddings: json_get of "$.embeddings[*]", the values of
\* "embeddings" in the order the store lists them.
GetEmbeddings(t) ==
  /\ index_tasks[t].pc = "get_embeddings"
  /\ LET file_name == Unwrap(index_tasks[t].album).file_name
         current == DocEmbeddings(index_docs, file_name)
         n == Cardinality(DOMAIN current)
     IN \E order \in {o \in [1..n -> DOMAIN current] :
                        \A i, j \in 1..n : i # j => o[i] # o[j]} :
          index_tasks' = [index_tasks EXCEPT
            ![t].pc = "json_set",
            ![t].todo = [i \in 1..n |-> [file_name |-> file_name, key |-> order[i],
                                         embedding |-> current[order[i]]]]]
  /\ UNCHANGED <<index_docs, index_calls, core, albums, ranking, crawl, bus>>

\* put: json_set(redis_key(..), "$", ..) replaces the whole document by
\* the RedisAlbumReadModel, which has no "embeddings"; what get_embeddings
\* returned is then handed to put_embedding, one by one.
IndexPut(t) ==
  /\ index_tasks[t].pc = "json_set"
  /\ LET album == Unwrap(index_tasks[t].album)
     IN index_docs' = Put(index_docs, album.file_name,
                          [album |-> Some(IntoRedisAlbumReadModel(album)),
                           embeddings |-> None])
  /\ IF index_tasks[t].todo = <<>>
     THEN IndexReturn(t, TRUE)
     ELSE index_tasks' = [index_tasks EXCEPT ![t].pc = "root_get"]
  /\ UNCHANGED <<index_calls, core, albums, ranking, crawl, bus>>

\* AlbumSearchIndex::put_embedding is called.
PutEmbeddingCall(t, embedding) ==
  /\ index_tasks[t].pc = "idle"
  /\ index_calls < MaxIndexCalls
  /\ index_calls' = index_calls + 1
  /\ index_tasks' = [index_tasks EXCEPT ![t] =
       [NoIndexCall EXCEPT !.op = "put_embedding", !.pc = "root_get",
                           !.todo = <<embedding>>]]
  /\ UNCHANGED <<index_docs, core, albums, ranking, crawl, bus>>

\* ensure_album_root: json_get of the document and, when there is none or
\* it is "{}", json_set(.., "$", "{}").
EnsureAlbumRoot(t) ==
  LET file_name == Head(index_tasks[t].todo).file_name
  IN \/ /\ index_tasks[t].pc = "root_get"
        /\ index_tasks' = [index_tasks EXCEPT ![t].pc =
             IF file_name \notin DOMAIN index_docs \/ index_docs[file_name] = EmptyDocument
             THEN "root_set" ELSE "field_get"]
        /\ UNCHANGED <<index_docs, index_calls, core, albums, ranking, crawl, bus>>
     \/ /\ index_tasks[t].pc = "root_set"
        /\ index_docs' = Put(index_docs, file_name, EmptyDocument)
        /\ index_tasks' = [index_tasks EXCEPT ![t].pc = "field_get"]
        /\ UNCHANGED <<index_calls, core, albums, ranking, crawl, bus>>

\* ensure_embeddings_field: json_get of "$.embeddings" and, when the
\* document has none, json_set(.., "$.embeddings", "{}").  No call of the
\* model removes a document, so the document is there.
EnsureEmbeddingsField(t) ==
  LET file_name == Head(index_tasks[t].todo).file_name
  IN \/ /\ index_tasks[t].pc = "field_get"
        /\ index_tasks' = [index_tasks EXCEPT ![t].pc =
             IF file_name \notin DOMAIN index_docs \/ index_docs[file_name].embeddings = None
             THEN "field_set" ELSE "embedding_set"]
        /\ UNCHANGED <<index_docs, index_calls, core, albums, ranking, crawl, bus>>
     \/ /\ index_tasks[t].pc = "field_set"
        /\ index_docs' = [index_docs EXCEPT ![file_name].embeddings = Some(<<>>)]
        /\ index_tasks' = [index_tasks EXCEPT ![t].pc = "embedding_set"]
        /\ UNCHANGED <<index_calls, core, albums, ranking, crawl, bus>>

\* put_embedding: json_set(.., "$.embeddings.{key}", ..).  When a put has
\* replaced the document since ensure_embeddings_field, "embeddings" is
\* missing: the store writes nothing, and either fails the call or not.
PutEmbedding(t) ==
  /\ index_tasks[t].pc = "embedding_set"
  /\ LET embedding == Head(index_tasks[t].todo)
         doc == index_docs[embedding.file_name]
         next == IF Tail(index_tasks[t].todo) = <<>>
                 THEN IndexReturn(t, TRUE)
                 ELSE index_tasks' = [index_tasks EXCEPT ![t].pc = "root_get",
                                                         ![t].todo = Tail(index_tasks[t].todo)]
     IN IF doc.embeddings = None
        THEN /\ UNCHANGED index_docs
             /\ IndexReturn(t, FALSE) \/ next
        ELSE /\ index_docs' = [index_docs EXCEPT ![embedding.file_name].embeddings =
                                 Some(Put(Unwrap(doc.embeddings), embedding.key,
                                          embedding.embedding))]
             /\ next
  /\ UNCHANGED <<index_calls, core, albums, ranking, crawl, bus>>

IndexNext ==
  \/ \E t \in Tasks : \E album \in IndexAlbums : IndexPutCall(t, album)
  \/ \E t \in Tasks : GetEmbeddings(t)
  \/ \E t \in Tasks : IndexPut(t)
  \/ \E t \in Tasks : \E embedding \in EmbeddingInputs : PutEmbeddingCall(t, embedding)
  \/ \E t \in Tasks : EnsureAlbumRoot(t)
  \/ \E t \in Tasks : EnsureEmbeddingsField(t)
  \/ \E t \in Tasks : PutEmbedding(t)

IndexSpec == AlbumInit /\ [][IndexNext]_vars

\* The albums of a run that checks the documents put writes: every list
\* of every length up to MaxListLen, a duplicate and an original.
DocumentAlbums ==
  LET Lists == {[i \in 1..n |-> StrX] : n \in 0..MaxListLen}
  IN {FullAlbum(StrA, name, 1, artists, primary_genres, secondary_genres, descriptors,
                languages, duplicate_of) :
        name \in {NameK, NameLowerK}, artists \in Lists, primary_genres \in Lists,
        secondary_genres \in Lists, descriptors \in Lists, languages \in Lists,
        duplicate_of \in {None, Some(StrB)}}

\* AlbumSearchIndex::put run from call to return with no other call of the
\* search index in between: the embeddings it read are back in place.
IndexPutAlone(album) ==
  /\ \A t \in Tasks : index_tasks[t].pc = "idle"
  /\ index_calls < MaxIndexCalls
  /\ index_calls' = index_calls + 1
  /\ index_docs' = Put(index_docs, album.file_name,
       [album |-> Some(IntoRedisAlbumReadModel(album)),
        embeddings |-> IF DocEmbeddings(index_docs, album.file_name) = <<>>
                       THEN None
                       ELSE Some(DocEmbeddings(index_docs, album.file_name))])
  /\ UNCHANGED <<index_tasks, core, albums, ranking, crawl, bus>>

\* One put into the empty index, of any of the albums.
DocumentNext == \E album \in DocumentAlbums : index_calls = 0 /\ IndexPutAlone(album)

DocumentSpec == AlbumInit /\ [][DocumentNext]_vars

\* ---------------------------------------------------- bounded min-heap
\* (core/src/helpers/bounded_min_heap.rs)  The heap holds items of an
\* ordered type; an item of the model is [id, score], ordered by score as
\* an AlbumRecommendation is (recommendations/types.rs), so that different
\* items can compare equal.

\* The items of h that BinaryHeap<Reverse<T>>::pop may return: any of the
\* smallest.
HeapMins(h) == {m \in h : \A x \in h : m.score <= x.score}

\* BoundedMinHeap::push on a full heap, with the comparison turned round.
PushEvictsForSmaller(h, capacity, item) ==
  IF Cardinality(h) < capacity
  THEN {h \cup {item}}
  ELSE IF h = {}
       THEN {h}
       ELSE {IF item.score < min.score THEN (h \ {min}) \cup {item} ELSE h :
               min \in HeapMins(h)}

\* BoundedMinHeap::push that pushes whether or not the heap is full.
PushUnbounded(h, capacity, item) ==
  {h \cup {item}}

\* BoundedMinHeap::push: the heaps it may leave.
HeapPush(h, capacity, item) ==
  IF Cardinality(h) < capacity
  THEN {h \cup {item}}
  ELSE IF h = {}
       THEN {h}
       ELSE {IF item.score > min.score THEN (h \ {min}) \cup {item} ELSE h :
               min \in HeapMins(h)}

\* push(item) on the heap of the model; the item is the next of the feed.
Feed(item) ==
  /\ heap' \in HeapPush(heap, heap_capacity, item)
  /\ heap_fed' = Append(heap_fed, item)

\* A caller pushes an item of any score.
PushItem ==
  /\ Len(heap_fed) < MaxPushes
  /\ \E score \in 0..MaxScore : Feed([id |-> Len(heap_fed) + 1, score |-> score])
  /\ UNCHANGED <<heap_capacity, recommend, core, albums, index, crawl, bus>>

\* BoundedMinHeap::new(capacity) for any capacity.
HeapInit ==
  /\ QueueInit /\ CodecIdle /\ AlbumsEmpty /\ IndexEmpty /\ HeapEmpty
  /\ FilesEmpty /\ ttl_days = NoTtl
  /\ max_size = 1
  /\ heap_capacity \in 0..MaxCapacity

HeapNext == PushItem

HeapSpec == HeapInit /\ [][HeapNext]_vars

\* ------------------------------------------------------ recommendations
\* (core/src/recommendations/quantile_ranking/quantile_rank_interactor.rs)
\* An album of a search result is [id, descriptors, score]: score is the
\* score the assessment context gives the album when it assesses it.

\* TryFrom<AlbumReadModel> for QuantileRankAssessableAlbum: the fewest
\* descriptors of an assessable album.
MinDescriptors == 5

\* QuantileRankAlbumAssessmentContext::assess: an album with fewer than
\* MinDescriptors descriptors is refused, any other gets its score.
Assess(album) ==
  IF Len(album.descriptors) < MinDescriptors
  THEN Err("Not enough descriptors")
  ELSE Ok([id |-> album.id, score |-> album.score])

\* BoundedMinHeap::drain_sorted_desc: the items of h, largest first; items
\* of equal score in any order.
DrainSortedDesc(h) ==
  LET n == Cardinality(h)
  IN {o \in [1..n -> h] :
        /\ \A i, j \in 1..n : i # j => o[i] # o[j]
        /\ \A i, j \in 1..n : i < j => o[i].score >= o[j].score}

\* What album_search_index.search returns when it does not fail: up to
\* MaxCandidates albums, each one descriptor short of assessable or
\* assessable.
SearchResults ==
  {Ok(found) : found \in UNION {
     {[i \in 1..n |-> [id |-> i,
                       descriptors |-> [k \in 1..d[i] |-> StrX],
                       score |-> c[i]]] :
        d \in [1..n -> {MinDescriptors - 1, MinDescriptors}],
        c \in [1..n -> 0..MaxScore]} : n \in 0..MaxCandidates}}

\* recommend_albums up to the spawn of the workers: the search, whose
\* error is returned, and BoundedMinHeap::new(count).
RecommendAlbums(count, found) ==
  /\ recommend.pc = "idle"
  /\ IF found.ok
     THEN /\ recommend' = [recommend EXCEPT !.pc = "receive", !.count = count,
                                            !.search = Some(found),
                                            !.pending = Range(found.value)]
          /\ heap' = {}
          /\ heap_capacity' = count
          /\ heap_fed' = <<>>
     ELSE /\ recommend' = [recommend EXCEPT !.pc = "done", !.count = count,
                                            !.search = Some(found),
                                            !.result = Some(found)]
          /\ UNCHANGED <<heap, heap_capacity, heap_fed>>
  /\ UNCHANGED <<core, albums, index, crawl, bus>>

\* A worker assesses an album, with an error returned in place of the
\* warning.
AssessAlbumOrFail(album) ==
  /\ recommend.pc = "receive"
  /\ album \in recommend.pending
  /\ recommend' =
       IF Assess(album).ok
       THEN [recommend EXCEPT !.pending = @ \ {album},
                              !.channel = Append(@, Assess(album).value)]
       ELSE [recommend EXCEPT !.pending = {}, !.pc = "done",
                              !.result = Some(Assess(album))]
  /\ UNCHANGED <<heap, heap_capacity, heap_fed, core, albums, index, crawl, bus>>

\* A worker that puts back an album it could not assess and takes it
\* again.
AssessAlbumRetries(album) ==
  /\ recommend.pc = "receive"
  /\ album \in recommend.pending
  /\ recommend' =
       IF Assess(album).ok
       THEN [recommend EXCEPT !.pending = @ \ {album},
                              !.channel = Append(@, Assess(album).value)]
       ELSE recommend
  /\ UNCHANGED <<heap, heap_capacity, heap_fed, core, albums, index, crawl, bus>>

\* A worker of par_iter().for_each assesses an album, whichever it takes
\* next: it sends the recommendation, or warns and sends nothing.
AssessAlbum(album) ==
  /\ recommend.pc = "receive"
  /\ album \in recommend.pending
  /\ recommend' =
       IF Assess(album).ok
       THEN [recommend EXCEPT !.pending = @ \ {album},
                              !.channel = Append(@, Assess(album).value)]
       ELSE [recommend EXCEPT !.pending = @ \ {album}]
  /\ UNCHANGED <<heap, heap_capacity, heap_fed, core, albums, index, crawl, bus>>

\* recommendation_receiver.recv() returns a recommendation, which is
\* pushed.
Receive ==
  /\ recommend.pc = "receive"
  /\ recommend.channel # <<>>
  /\ Feed(Head(recommend.channel))
  /\ recommend' = [recommend EXCEPT !.channel = Tail(@)]
  /\ UNCHANGED <<heap_capacity, core, albums, index, crawl, bus>>

\* recv() returns None, the workers being done and the channel empty: the
\* heap is drained and returned.
ReturnRecommendations ==
  /\ recommend.pc = "receive"
  /\ recommend.pending = {}
  /\ recommend.channel = <<>>
  /\ \E recommendations \in DrainSortedDesc(heap) :
       recommend' = [recommend EXCEPT !.pc = "done", !.result = Some(Ok(recommendations))]
  /\ heap' = {}
  /\ UNCHANGED <<heap_capacity, heap_fed, core, albums, index, crawl, bus>>

RecommendNext ==
  \/ /\ recommend.pc = "idle"
     /\ \E count \in 0..MaxCapacity : \E found \in SearchResults :
          RecommendAlbums(count, found)
  \/ \E count \in 0..MaxCapacity : RecommendAlbums(count, Err("search"))
  \/ \E album \in recommend.pending : AssessAlbum(album)
  \/ Receive
  \/ ReturnRecommendations

RecommendSpec == AlbumInit /\ [][RecommendNext]_vars

\* The search results of the runs that are followed to their end: up to
\* MaxCandidates albums, each assessable or one descriptor short, the
\* score of each its place in the result.
TerminationResults ==
  {Ok(found) : found \in UNION {
     {[i \in 1..n |-> [id |-> i,
                       descriptors |-> [k \in 1..d[i] |-> StrX],
                       score |-> i]] :
        d \in [1..n -> {MinDescriptors - 1, MinDescriptors}]} : n \in 0..MaxCandidates}}

RecommendFairNext ==
  \/ /\ recommend.pc = "idle"
     /\ \E count \in 0..MaxCapacity : \E found \in TerminationResults :
          RecommendAlbums(count, found)
  \/ \E count \in 0..MaxCapacity : RecommendAlbums(count, Err("search"))
  \/ \E album \in recommend.pending : AssessAlbum(album)
  \/ Receive
  \/ ReturnRecommendations

\* The workers of the rayon pool run while there is an album to assess, and
\* the awaiting task is polled while the channel holds a recommendation or
\* is closed: no step that stays possible is put off forever.
RecommendFairSpec ==
  /\ AlbumInit
  /\ [][RecommendFairNext]_vars
  /\ WF_vars(\E album \in recommend.pending : AssessAlbum(album))
  /\ WF_vars(Receive)
  /\ WF_vars(ReturnRecommendations)

\* ---------------------------------------------------------------- files
\* (core/src/files/file_interactor.rs)  The clock of a run of the crawler
\* is `now`, with DayTicks ticks to the day.

StrS == <<115>>

\* FileName::page_type of the file names of the model.
PageType(file_name) ==
  CASE file_name = StrA -> "Album"
    [] file_name = StrB -> "Artist"
    [] file_name = StrX -> "Chart"
    [] file_name = StrS -> "AlbumSearchResult"

CrawlFiles == {StrA, StrB, StrX, StrS}

\* settings.file.ttl_days of a run: TTLs that differ between page types.
TtlSettings ==
  {[artist |-> k % (MaxTtlDays + 1), album |-> (k + 1) % (MaxTtlDays + 1),
    chart |-> (k + 2) % (MaxTtlDays + 1), search |-> (k + 3) % (MaxTtlDays + 1)] :
     k \in 0..MaxTtlDays}

\* file_metadata_repository.find_by_name
FindByName(file_name) ==
  IF file_name \in DOMAIN file_metadata THEN Some(file_metadata[file_name]) ELSE None

\* is_file_stale with the album TTL for every page type.
IsFileStaleAlbumTtl(file_name) ==
  LET found == FindByName(file_name)
  IN IF found = None
     THEN TRUE
     ELSE now > Unwrap(found).last_saved_at + ttl_days.album * DayTicks

\* is_file_stale with a file stale from last_saved_at + TTL on.
IsFileStaleAtTtl(file_name) ==
  LET found == FindByName(file_name)
      ttl == CASE PageType(file_name) = "Artist" -> ttl_days.artist
               [] PageType(file_name) = "Album" -> ttl_days.album
               [] PageType(file_name) = "Chart" -> ttl_days.chart
               [] PageType(file_name) = "AlbumSearchResult" -> ttl_days.search
  IN IF found = None
     THEN TRUE
     ELSE now >= Unwrap(found).last_saved_at + ttl * DayTicks

\* FileInteractor::is_file_stale, the repository answering.
IsFileStale(file_name) ==
  LET found == FindByName(file_name)
      ttl == CASE PageType(file_name) = "Artist" -> ttl_days.artist
               [] PageType(file_name) = "Album" -> ttl_days.album
               [] PageType(file_name) = "Chart" -> ttl_days.chart
               [] PageType(file_name) = "AlbumSearchResult" -> ttl_days.search
  IN IF found = None
     THEN TRUE
     ELSE now > Unwrap(found).last_saved_at + ttl * DayTicks

\* The call being answered, as asked about file_name now.
StaleCall(op, file_name) ==
  [op |-> op, file_name |-> Some(file_name), stale |-> IsFileStale(file_name), at |-> now,
   saved |-> IF FindByName(file_name) = None THEN None
             ELSE Some(Unwrap(FindByName(file_name)).last_saved_at)]

\* FileInteractor::put_file: the upsert refreshes last_saved_at.  A run
\* saves at most MaxFiles different files.
PutFile(file_name) ==
  /\ stale_call.op = "none"
  /\ file_name \in DOMAIN file_metadata \/ Cardinality(DOMAIN file_metadata) < MaxFiles
  /\ file_metadata' = Put(file_metadata, file_name, [last_saved_at |-> now])
  /\ UNCHANGED <<ttl_days, stale_call, core, albums, index, ranking, bus>>

\* A caller asks is_file_stale.
IsFileStaleCall(file_name) ==
  /\ stale_call.op = "none"
  /\ stale_call' = StaleCall("is_file_stale", file_name)
  /\ UNCHANGED <<file_metadata, ttl_days, core, albums, index, ranking, bus>>

\* The QueuePushParameters crawl_chart_albums builds for the albums of a
\* chart: album pages, at the priority get_crawl_priority gives.
CrawlInputs ==
  {[file_name |-> file_name, priority |-> Some(priority), deduplication_key |-> None,
    correlation_id |-> Some(StrX), metadata |-> None] :
     file_name \in {f \in CrawlFiles : PageType(f) = "Album"}, priority \in {Standard, Low}}

\* CrawlerInteractor::enqueue_if_stale: priority_queue.push(params) when
\* the file is stale, nothing otherwise.
EnqueueIfStale(t, params) ==
  /\ stale_call.op = "none"
  /\ pc[t] = "idle"
  /\ stale_call' = StaleCall("enqueue_if_stale", params.file_name)
  /\ IF IsFileStale(params.file_name)
     THEN PushBegin(t, params)
     ELSE UNCHANGED <<zset, items, claimed, now, locks, pc, call, local, result, held>>
  /\ UNCHANGED <<calls, max_size, codec_key, codec_str, codec_parsed, file_metadata, ttl_days,
                 albums, index, ranking, file_content_store, next_file_id, file_call,
                 event_stream>>

\* The call is answered.
StaleReturn ==
  /\ stale_call.op # "none"
  /\ stale_call' = NoStaleCall
  /\ UNCHANGED <<file_metadata, ttl_days, core, albums, index, ranking, bus>>

CrawlInit ==
  /\ QueueInit /\ CodecIdle /\ AlbumsEmpty /\ IndexEmpty
  /\ HeapEmpty /\ heap_capacity = 0
  /\ FilesEmpty
  /\ ttl_days \in TtlSettings
  /\ max_size = 1

\* Files are saved and asked about while the days pass.
StaleNext ==
  \/ \E file_name \in CrawlFiles : PutFile(file_name)
  \/ \E file_name \in CrawlFiles : IsFileStaleCall(file_name)
  \/ StaleReturn
  \/ stale_call.op = "none" /\ TickUntil(MaxDays * DayTicks + 1) /\ UNCHANGED <<calls, fixed>>

StaleSpec == CrawlInit /\ [][StaleNext]_vars

\* Album pages are saved and, as the days pass, a subscriber enqueues them
\* when they are stale; the pushes run to their end.
CrawlNext ==
  \/ \E params \in CrawlInputs : PutFile(params.file_name)
  \/ \E params \in CrawlInputs : EnqueueIfStale("t1", params) /\ UNCHANGED subscriber
  \/ StaleReturn
  \/ stale_call.op = "none" /\ TickUntil(MaxDays * DayTicks + 1) /\ UNCHANGED <<calls, fixed>>
  \/ PushIsFull("t1") /\ UNCHANGED <<calls, fixed>>
  \/ PushExecute("t1") /\ UNCHANGED <<calls, fixed>>
  \/ Return("t1") /\ UNCHANGED <<calls, fixed>>

CrawlSpec == CrawlInit /\ [][CrawlNext]_vars

\* ------------------------------------------------------- file interactor
\* put_file and delete_file run one call at a time; a call suspends before
\* every call of the content store, the metadata repository and the event
\* publisher, and each of these calls succeeds or fails.

\* The files of a run: a is put and deleted, b is never put.
FileNames == {StrA, StrB}

\* The content and the correlation_id of the put_file calls of a run: a
\* first save with no correlation_id and a save with one that writes other
\* content.
FilePuts ==
  {[content |-> StrX, correlation_id |-> None],
   [content |-> StrS, correlation_id |-> Some(StrX)]}

\* What a file call leaves alone.
beyond_files == <<ttl_days, stale_call, subscriber, core, albums, index, ranking>>

\* The metadata, the contents and the File stream.
FileStores ==
  [file_metadata |-> file_metadata, file_content_store |-> file_content_store,
   stream |-> event_stream.File]

\* FileContentStore::put: the content of the file is written, over what
\* was there.
ContentStorePut(store, file_name, content) == Put(store, file_name, content)

\* FileContentStore::delete
ContentStoreDelete(store, file_name) == Restrict(store, DOMAIN store \ {file_name})

\* FileMetadataRepository::upsert: the record of the file with
\* last_saved_at refreshed and its id kept, or a new record with a new id.
Upsert(file_name) ==
  IF file_name \in DOMAIN file_metadata
  THEN [file_metadata[file_name] EXCEPT !.last_saved_at = now]
  ELSE [id |-> next_file_id, name |-> file_name, last_saved_at |-> now]

\* EventPublisher::publish: the payload is appended to the stream.
Publish(stream, payload) == [event_stream EXCEPT ![stream] = Append(@, payload)]

\* The call fails with error e: the `?` returns it.
FileFails(e) == file_call' = [file_call EXCEPT !.pc = "done", !.ret = Some(Err(e))]

\* put_file is called.  A run publishes at most MaxEvents events and makes
\* at most MaxEvents ids.
PutFileCall(file_name, content, correlation_id) ==
  /\ file_call.op = "none"
  /\ Len(event_stream.File) < MaxEvents
  /\ next_file_id <= MaxEvents
  /\ file_call' = [NoFileCall EXCEPT !.op = "put_file", !.pc = "content_put",
                                    !.file_name = Some(file_name),
                                    !.content = Some(content),
                                    !.correlation_id = correlation_id,
                                    !.before = Some(FileStores)]
  /\ UNCHANGED <<file_metadata, file_content_store, next_file_id, event_stream, beyond_files>>

\* A put_file that goes on to the metadata when the content store failed.
FileContentPutUnchecked ==
  /\ file_call.pc = "content_put"
  /\ \/ file_content_store' = ContentStorePut(file_content_store, Unwrap(file_call.file_name),
                                              Unwrap(file_call.content))
     \/ UNCHANGED file_content_store
  /\ file_call' = [file_call EXCEPT !.pc = "upsert"]
  /\ UNCHANGED <<file_metadata, next_file_id, event_stream, beyond_files>>

\* put_file, line 100: file_content_store.put(file_name, content).await?
FileContentPut ==
  /\ file_call.pc = "content_put"
  /\ \/ /\ file_content_store' = ContentStorePut(file_content_store,
                                                 Unwrap(file_call.file_name),
                                                 Unwrap(file_call.content))
        /\ file_call' = [file_call EXCEPT !.pc = "upsert"]
     \/ /\ FileFails("content store")
        /\ UNCHANGED file_content_store
  /\ UNCHANGED <<file_metadata, next_file_id, event_stream, beyond_files>>

\* put_file_metadata, line 76: file_metadata_repository.upsert(file_name).await?
PutFileMetadataUpsert ==
  /\ file_call.pc = "upsert"
  /\ LET file_name == Unwrap(file_call.file_name)
     IN \/ /\ file_metadata' = Put(file_metadata, file_name, Upsert(file_name))
           /\ next_file_id' = IF file_name \in DOMAIN file_metadata
                              THEN next_file_id ELSE next_file_id + 1
           /\ file_call' = [file_call EXCEPT !.pc = "publish_saved",
                                             !.file_metadata = Some(Upsert(file_name))]
        \/ /\ FileFails("repository")
           /\ UNCHANGED <<file_metadata, next_file_id>>
  /\ UNCHANGED <<file_content_store, event_stream, beyond_files>>

\* put_file_metadata, lines 78-91: FileSaved with the id and the name of
\* the record upsert returned and the caller's correlation_id is published
\* on the File stream; Ok(file_metadata).
PutFileMetadataPublish ==
  /\ file_call.pc = "publish_saved"
  /\ LET found == Unwrap(file_call.file_metadata)
     IN \/ /\ event_stream' = Publish("File",
                  [event |-> [type |-> "FileSaved", file_id |-> found.id,
                              file_name |-> found.name],
                   correlation_id |-> file_call.correlation_id])
           /\ file_call' = [file_call EXCEPT !.pc = "done", !.ret = Some(Ok(Some(found)))]
        \/ /\ FileFails("publisher")
           /\ UNCHANGED event_stream
  /\ UNCHANGED <<file_metadata, file_content_store, next_file_id, beyond_files>>

\* delete_file is called.
DeleteFileCall(file_name) ==
  /\ file_call.op = "none"
  /\ Len(event_stream.File) < MaxEvents
  /\ file_call' = [NoFileCall EXCEPT !.op = "delete_file", !.pc = "find_by_name",
                                    !.file_name = Some(file_name),
                                    !.before = Some(FileStores)]
  /\ UNCHANGED <<file_metadata, file_content_store, next_file_id, event_stream, beyond_files>>

\* A get_file_metadata that answers a missing record with an empty one.
GetFileMetadataOrDefault ==
  /\ file_call.pc = "find_by_name"
  /\ LET file_name == Unwrap(file_call.file_name)
         found == FindByName(file_name)
     IN \/ file_call' = [file_call EXCEPT
               !.pc = "metadata_delete",
               !.file_metadata = IF found = None
                                 THEN Some([id |-> 0, name |-> file_name, last_saved_at |-> 0])
                                 ELSE found]
        \/ FileFails("repository")
  /\ UNCHANGED <<file_metadata, file_content_store, next_file_id, event_stream, beyond_files>>

\* get_file_metadata, lines 108-119: find_by_name(file_name).await?, and
\* the not-found error when there is no record.
GetFileMetadata ==
  /\ file_call.pc = "find_by_name"
  /\ LET found == FindByName(Unwrap(file_call.file_name))
     IN \/ IF found = None
           THEN FileFails("File metadata not found")
           ELSE file_call' = [file_call EXCEPT !.pc = "metadata_delete",
                                              !.file_metadata = found]
        \/ FileFails("repository")
  /\ UNCHANGED <<file_metadata, file_content_store, next_file_id, event_stream, beyond_files>>

\* delete_file, line 123: file_metadata_repository.delete(file_name).await?
DeleteFileMetadata ==
  /\ file_call.pc = "metadata_delete"
  /\ \/ /\ file_metadata' = Restrict(file_metadata,
                                      DOMAIN file_metadata \ {Unwrap(file_call.file_name)})
        /\ file_call' = [file_call EXCEPT !.pc = "content_delete"]
     \/ /\ FileFails("repository")
        /\ UNCHANGED file_metadata
  /\ UNCHANGED <<file_content_store, next_file_id, event_stream, beyond_files>>

\* delete_file, line 124: file_content_store.delete(file_name).await?
DeleteFileContent ==
  /\ file_call.pc = "content_delete"
  /\ \/ /\ file_content_store' = ContentStoreDelete(file_content_store,
                                                    Unwrap(file_call.file_name))
        /\ file_call' = [file_call EXCEPT !.pc = "publish_deleted"]
     \/ /\ FileFails("content store")
        /\ UNCHANGED file_content_store
  /\ UNCHANGED <<file_metadata, next_file_id, event_stream, beyond_files>>

\* delete_file, lines 125-137: FileDeleted with the id and the name of the
\* record get_file_metadata returned is published on the File stream; Ok(()).
DeleteFilePublish ==
  /\ file_call.pc = "publish_deleted"
  /\ LET found == Unwrap(file_call.file_metadata)
     IN \/ /\ event_stream' = Publish("File",
                  [event |-> [type |-> "FileDeleted", file_id |-> found.id,
                              file_name |-> found.name],
                   correlation_id |-> None])
           /\ file_call' = [file_call EXCEPT !.pc = "done", !.ret = Some(Ok(None))]
        \/ /\ FileFails("publisher")
           /\ UNCHANGED event_stream
  /\ UNCHANGED <<file_metadata, file_content_store, next_file_id, beyond_files>>

\* The call returns to its caller.
FileReturn ==
  /\ file_call.pc = "done"
  /\ file_call' = NoFileCall
  /\ UNCHANGED <<file_metadata, file_content_store, next_file_id, event_stream, beyond_files>>

\* Files are put and deleted, one call at a time, while the clock runs.
FileNext ==
  \/ \E put \in FilePuts : PutFileCall(StrA, put.content, put.correlation_id)
  \/ FileContentPut
  \/ PutFileMetadataUpsert
  \/ PutFileMetadataPublish
  \/ \E file_name \in FileNames : DeleteFileCall(file_name)
  \/ GetFileMetadata
  \/ DeleteFileMetadata
  \/ DeleteFileContent
  \/ DeleteFilePublish
  \/ FileReturn
  \/ file_call.op = "none" /\ Tick /\ UNCHANGED <<calls, fixed>>

FileSpec == AlbumInit /\ [][FileNext]_vars

\* ------------------------------------------------------ event subscribers
\* A subscriber polls its stream for the events after its cursor, at most
\* BatchSize of them, and hands each to its handler; handlers of events
\* with one ordering-group key run one after the other, the others as they
\* come; when all have ended the cursor moves up to the first event whose
\* handler failed.

\* FileParsed with ParsedFileData::Album: the parsed album of an album page.
FileParsedAlbum(file_name, name, artists) ==
  [event |-> [type |-> "FileParsed", file_name |-> file_name,
              data |-> [type |-> "Album", name |-> name, artists |-> artists]],
   correlation_id |-> None]

\* FileParsed with ParsedFileData::Chart: the album pages a chart lists.
FileParsedChart(file_name, found, correlation_id) ==
  [event |-> [type |-> "FileParsed", file_name |-> file_name,
              data |-> [type |-> "Chart", albums |-> found]],
   correlation_id |-> correlation_id]

\* FileDeleted
FileDeleted(file_name) ==
  [event |-> [type |-> "FileDeleted", file_name |-> file_name], correlation_id |-> None]

\* The ordering-group id of update_album_read_models: the name of the
\* parsed album.
UpdateAlbumGroupId(payload) ==
  IF payload.event.type = "FileParsed" /\ payload.event.data.type = "Album"
  THEN Some(payload.event.data.name)
  ELSE None

\* The ordering-group id of delete_album_read_models: the file name of a
\* deleted album page.
DeleteAlbumGroupId(payload) ==
  IF payload.event.type = "FileDeleted" /\ PageType(payload.event.file_name) = "Album"
  THEN Some(payload.event.file_name)
  ELSE None

\* generate_ordered_processing_group_id of the subscriber id; the crawl
\* subscribers have none.
GroupId(id, payload) ==
  CASE id = "update_album_read_models" -> UpdateAlbumGroupId(payload)
    [] id = "delete_album_read_models" -> DeleteAlbumGroupId(payload)
    [] OTHER -> None

\* The stream of the subscriber id.
StreamOf(id) == IF id = "delete_album_read_models" THEN "File" ELSE "Parser"

\* update_album_read_models and delete_album_read_models: an event of the
\* handler's kind is handed to the repository, whose error is returned;
\* any other event is Ok(()).
HandlerResults(id, payload) ==
  IF \/ id = "update_album_read_models" /\ UpdateAlbumGroupId(payload) # None
     \/ id = "delete_album_read_models" /\ payload.event.type = "FileDeleted"
  THEN {TRUE, FALSE}
  ELSE {TRUE}

\* The events of a run: the parsed albums "K" by p, "k" by p and "O" by p,
\* a parsed chart, and the deletion of an album page and of an artist page.
BusEvents ==
  {<<"Parser", FileParsedAlbum(StrA, NameK, {ArtistP})>>,
   <<"Parser", FileParsedAlbum(StrB, NameLowerK, {ArtistP})>>,
   <<"Parser", FileParsedAlbum(StrX, NameO, {ArtistP})>>,
   <<"File", FileDeleted(StrA)>>,
   <<"File", FileDeleted(StrB)>>}

\* What the subscriber leaves alone.
beyond_bus == <<file_metadata, ttl_days, stale_call, file_content_store, next_file_id,
                file_call, core, albums, index, ranking>>

\* An event is published on a stream.  A run has at most MaxEvents events.
StreamPublish(stream, payload) ==
  /\ Len(event_stream.File) + Len(event_stream.Parser) < MaxEvents
  /\ event_stream' = Publish(stream, payload)
  /\ UNCHANGED <<subscriber, beyond_bus>>

\* The subscriber reads the events after its cursor, at most BatchSize.
Poll(id) ==
  /\ subscriber.id \in {"none", id}
  /\ subscriber.batch = <<>>
  /\ subscriber.cursor < Len(event_stream[StreamOf(id)])
  /\ LET stream == event_stream[StreamOf(id)]
         n == IF Len(stream) - subscriber.cursor < BatchSize
              THEN Len(stream) - subscriber.cursor ELSE BatchSize
     IN subscriber' = [subscriber EXCEPT
          !.id = id,
          !.batch = [k \in 1..n |-> [payload |-> stream[subscriber.cursor + k],
                                     state |-> "waiting", enqueued |-> 0]]]
  /\ UNCHANGED <<event_stream, beyond_bus>>

\* The handlers of the earlier events of the batch that have the
\* ordering-group id of event i have ended.
GroupIsFree(i) ==
  LET key == GroupId(subscriber.id, subscriber.batch[i].payload)
  IN key # None =>
       \A j \in 1..(i - 1) :
         GroupId(subscriber.id, subscriber.batch[j].payload) = key =>
           subscriber.batch[j].state \in {"ok", "failed"}

\* A dispatch that starts every handler as it comes.
HandlerBeginUnordered(i) ==
  /\ i \in 1..Len(subscriber.batch)
  /\ subscriber.batch[i].state = "waiting"
  /\ subscriber' = [subscriber EXCEPT !.batch[i].state = "running"]
  /\ UNCHANGED <<event_stream, beyond_bus>>

\* The handler of event i of the batch begins.
HandlerBegin(i) ==
  /\ i \in 1..Len(subscriber.batch)
  /\ subscriber.batch[i].state = "waiting"
  /\ GroupIsFree(i)
  /\ subscriber' = [subscriber EXCEPT !.batch[i].state = "running"]
  /\ UNCHANGED <<event_stream, beyond_bus>>

\* The handler of event i of the batch returns Ok (ok) or an Err.
HandlerEnd(i, ok) ==
  /\ i \in 1..Len(subscriber.batch)
  /\ subscriber.batch[i].state = "running"
  /\ ok \in HandlerResults(subscriber.id, subscriber.batch[i].payload)
  /\ subscriber' = [subscriber EXCEPT !.batch[i].state = IF ok THEN "ok" ELSE "failed"]
  /\ UNCHANGED <<event_stream, beyond_bus>>

\* The number of events at the head of the batch whose handlers returned Ok.
Succeeded(batch) ==
  Cardinality({k \in 1..Len(batch) : \A j \in 1..k : batch[j].state = "ok"})

\* A batch completion that moves the cursor past the whole batch.
BatchCompleteAll ==
  /\ subscriber.batch # <<>>
  /\ \A i \in 1..Len(subscriber.batch) : subscriber.batch[i].state \in {"ok", "failed"}
  /\ subscriber' = [subscriber EXCEPT !.cursor = @ + Len(subscriber.batch), !.batch = <<>>]
  /\ UNCHANGED <<event_stream, beyond_bus>>

\* Every handler of the batch has ended: the cursor moves past the events
\* before the first failed one, past the whole batch when none failed.
BatchComplete ==
  /\ subscriber.batch # <<>>
  /\ \A i \in 1..Len(subscriber.batch) : subscriber.batch[i].state \in {"ok", "failed"}
  /\ subscriber' = [subscriber EXCEPT !.cursor = @ + Succeeded(subscriber.batch),
                                     !.batch = <<>>]
  /\ UNCHANGED <<event_stream, beyond_bus>>

\* Events are published while update_album_read_models or
\* delete_album_read_models polls and handles them.
SubscriberNext ==
  \/ \E published \in BusEvents : StreamPublish(published[1], published[2])
  \/ \E id \in {"update_album_read_models", "delete_album_read_models"} : Poll(id)
  \/ \E i \in 1..BatchSize : HandlerBegin(i)
  \/ \E i \in 1..BatchSize : \E ok \in BOOLEAN : HandlerEnd(i, ok)
  \/ BatchComplete

SubscriberSpec == AlbumInit /\ [][SubscriberNext]_vars

\* ------------------------------------------------------- crawl subscribers
\* crawl_chart_albums and crawl_artist_albums enqueue the albums of a parsed
\* chart or artist, one enqueue_if_stale after the other.

\* "crawl_similar_albums:", "crawl_chart_albums:" and "crawl_artist_albums:"
CrawlSimilarAlbums ==
  <<99, 114, 97, 119, 108, 95, 115, 105, 109, 105, 108, 97, 114, 95, 97, 108, 98, 117, 109,
    115, 58>>
CrawlChartAlbums ==
  <<99, 114, 97, 119, 108, 95, 99, 104, 97, 114, 116, 95, 97, 108, 98, 117, 109, 115, 58>>
CrawlArtistAlbums ==
  <<99, 114, 97, 119, 108, 95, 97, 114, 116, 105, 115, 116, 95, 97, 108, 98, 117, 109, 115,
    58>>

\* str::starts_with
StartsWith(s, prefix) ==
  /\ Len(prefix) <= Len(s)
  /\ \A i \in 1..Len(prefix) : s[i] = prefix[i]

\* str::contains
StrContains(s, pattern) ==
  \E k \in 0..(Len(s) - Len(pattern)) : \A i \in 1..Len(pattern) : s[k + i] = pattern[i]

\* A get_crawl_priority that looks for the prefix anywhere in the
\* correlation_id.
GetCrawlPriorityContains(correlation_id) ==
  IF correlation_id = None
  THEN Standard
  ELSE IF StrContains(Unwrap(correlation_id), CrawlSimilarAlbums) THEN Low ELSE Standard

\* fn get_crawl_priority
GetCrawlPriority(correlation_id) ==
  IF correlation_id = None
  THEN Standard
  ELSE IF StartsWith(Unwrap(correlation_id), CrawlSimilarAlbums) THEN Low ELSE Standard

\* FileParsed with ParsedFileData::Artist: the album pages an artist has.
FileParsedArtist(file_name, found, correlation_id) ==
  [event |-> [type |-> "FileParsed", file_name |-> file_name,
              data |-> [type |-> "Artist", albums |-> found]],
   correlation_id |-> correlation_id]

\* The albums the handler of the subscriber id enqueues for an event: those
\* of a parsed chart for crawl_chart_albums, those of a parsed artist for
\* crawl_artist_albums, none for any other event.
CrawlAlbums(id, payload) ==
  IF /\ payload.event.type = "FileParsed"
     /\ \/ id = "crawl_chart_albums" /\ payload.event.data.type = "Chart"
        \/ id = "crawl_artist_albums" /\ payload.event.data.type = "Artist"
  THEN payload.event.data.albums
  ELSE <<>>

\* The QueuePushParameters the handler builds for an album.
CrawlParams(id, payload, file_name) ==
  [file_name |-> file_name,
   priority |-> Some(GetCrawlPriority(payload.correlation_id)),
   deduplication_key |-> None,
   correlation_id |-> Some((IF id = "crawl_chart_albums"
                            THEN CrawlChartAlbums ELSE CrawlArtistAlbums)
                           \o payload.event.file_name),
   metadata |-> None]

\* The correlation ids of the events of a run: none, the prefix alone, the
\* prefix and more, the prefix without its colon, the prefix after another
\* letter, another subscriber's prefix, and the empty string.
CorrelationIds ==
  {None, Some(CrawlSimilarAlbums), Some(CrawlSimilarAlbums \o StrA),
   Some(SubSeq(CrawlSimilarAlbums, 1, Len(CrawlSimilarAlbums) - 1)),
   Some(StrX \o CrawlSimilarAlbums), Some(CrawlChartAlbums \o StrX), Some(<<>>)}

\* The parsed charts and artists of a run.
CrawlEvents ==
  {FileParsedChart(StrX, <<StrA>>, correlation_id) : correlation_id \in CorrelationIds}
  \cup {FileParsedArtist(StrB, <<StrA, StrS>>, correlation_id) :
          correlation_id \in {None, Some(CrawlSimilarAlbums \o StrA)}}

\* The handler of event i calls enqueue_if_stale for its next album.
CrawlEnqueue(i) ==
  /\ i \in 1..Len(subscriber.batch)
  /\ subscriber.batch[i].state = "running"
  /\ LET entry == subscriber.batch[i]
         found == CrawlAlbums(subscriber.id, entry.payload)
     IN /\ entry.enqueued < Len(found)
        /\ EnqueueIfStale("t1", CrawlParams(subscriber.id, entry.payload,
                                            found[entry.enqueued + 1]))
  /\ subscriber' = [subscriber EXCEPT !.batch[i].enqueued = @ + 1]

\* enqueue_if_stale(..).await?: the error of the push is the handler's.
CrawlEnqueueFailed(i) ==
  /\ i \in 1..Len(subscriber.batch)
  /\ subscriber.batch[i].state = "running"
  /\ pc["t1"] = "done"
  /\ ~Unwrap(result["t1"]).ret.ok
  /\ Return("t1")
  /\ subscriber' = [subscriber EXCEPT !.batch[i].state = "failed"]
  /\ UNCHANGED <<calls, max_size, codec_key, codec_str, codec_parsed, albums, index, ranking,
                 crawl, file_content_store, next_file_id, file_call, event_stream>>

\* The loop is over: Ok(()).
CrawlEnd(i) ==
  /\ i \in 1..Len(subscriber.batch)
  /\ subscriber.batch[i].state = "running"
  /\ subscriber.batch[i].enqueued =
       Len(CrawlAlbums(subscriber.id, subscriber.batch[i].payload))
  /\ pc["t1"] = "idle"
  /\ stale_call.op = "none"
  /\ subscriber' = [subscriber EXCEPT !.batch[i].state = "ok"]
  /\ UNCHANGED <<event_stream, beyond_bus>>

\* Parsed charts and artists are published, up to a batch of them, while
\* crawl_chart_albums or crawl_artist_albums handles them one at a time
\* and the pushes run to their end.
PriorityNext ==
  \/ /\ Len(event_stream.Parser) < BatchSize
     /\ \E payload \in CrawlEvents : StreamPublish("Parser", payload)
  \/ \E id \in {"crawl_chart_albums", "crawl_artist_albums"} : Poll(id)
  \/ /\ \A j \in 1..Len(subscriber.batch) : subscriber.batch[j].state # "running"
     /\ \E i \in 1..BatchSize : HandlerBegin(i)
  \/ \E i \in 1..BatchSize : CrawlEnqueue(i)
  \/ \E i \in 1..BatchSize : CrawlEnqueueFailed(i)
  \/ \E i \in 1..BatchSize : CrawlEnd(i)
  \/ BatchComplete
  \/ StaleReturn
  \/ PushIsFull("t1") /\ UNCHANGED <<calls, fixed>>
  \/ PushExecute("t1") /\ UNCHANGED <<calls, fixed>>
  \/ /\ pc["t1"] = "done"
     /\ Unwrap(result["t1"]).ret.ok
     /\ Return("t1")
     /\ UNCHANGED <<calls, fixed>>

PrioritySpec == AlbumInit /\ [][PriorityNext]_vars

\* ------------------------------------------------------------ vocabulary
\* The ItemKey a member of the sorted set parses to.
MemberKey(m) == Unwrap(ItemKeyFromStr(m))

\* The sorted-set entry m has its record in the item hash.
HasRecord(m) == MemberKey(m).deduplication_key \in DOMAIN items

\* The sorted-set entry m has a live claim lease.
Leased(m) == ClaimedItemKey(MemberKey(m)) \in DOMAIN claimed

IsOp(t, op) == pc[t] = "done" /\ call[t].op = op
Ret(t) == Unwrap(result[t]).ret

\* The item a claim_item call has selected (lease not yet written) or has
\* just returned.
Selected(t) ==
  IF pc[t] = "claim_setex" THEN local[t].key
  ELSE IF IsOp(t, "claim_item") /\ Ret(t).ok /\ Ret(t).value # None
       THEN Some(Unwrap(Ret(t).value).item_key)
       ELSE None

\* ------------------------------------------------------------------ claims
\* C1: in every reachable state, also while push calls of one process
\* interleave, the sorted set holds at most max_size entries.
C1_SizeAtMostMaxSize == Zcard <= max_size

\* C2: at any moment at most one sorted-set entry carries a given
\* deduplication key.
C2_OneEntryPerDedupKey ==
  \A m, n \in DOMAIN zset :
    MemberKey(m).deduplication_key = MemberKey(n).deduplication_key => m = n

\* C3: two claim_item calls that run at the same time never select (and so
\* never both return) the same item.
C3_NoDoubleClaim ==
  \A t, u \in Tasks : (t # u /\ Selected(t) # None) => Selected(t) # Selected(u)

\* ------------------------------------------------- vocabulary of the steps
\* The value the call of task t returns in the next state.
RetNext(t) == Unwrap(result'[t]).ret

IsOk(r, v) == r.ok /\ r.value = v
IsErr(r, e) == ~r.ok /\ r.value = e

\* The step on which a call `op` of task t returns.
Finishes(t, op) == pc[t] # "done" /\ pc'[t] = "done" /\ call'[t].op = op

\* The sorted-set entries in front of entry m.
Before(m) == {n \in DOMAIN zset : ZLess(n, m)}

\* The step on which a push that meets a queue of at least max_size entries
\* decides its outcome.
FullPushStep(t) ==
  /\ Zcard >= max_size
  /\ call'[t].op = "push"
  /\ pc[t] \in {"idle", "push_is_full"}
  /\ pc'[t] \notin {pc[t], "push_is_full"}

\* C4 as stated: every push onto a queue of at least max_size entries, also
\* one whose deduplication key is already queued, fails with "Queue is full"
\* and leaves the sorted set, the item hash and the leases unchanged.
C4_FullPushFails ==
  [][\A t \in Tasks :
       FullPushStep(t) =>
         /\ pc'[t] = "done"
         /\ IsErr(RetNext(t), "Queue is full")
         /\ UNCHANGED <<zset, items, claimed>>]_vars

\* C4 amended: a push onto a queue of at least max_size entries changes
\* nothing; it fails with "Queue is full" when its deduplication key has no
\* record in the item hash, and returns Ok when it has one.
C4_FullPushFailsUnlessDuplicate ==
  [][\A t \in Tasks :
       FullPushStep(t) =>
         /\ pc'[t] = "done"
         /\ UNCHANGED <<zset, items, claimed>>
         /\ IF DedupKeyOf(call'[t].arg) \in DOMAIN items
            THEN IsOk(RetNext(t), None)
            ELSE IsErr(RetNext(t), "Queue is full")]_vars

\* A push of a new key has just failed on a full queue in which every entry
\* has its record.
C4_Witness ==
  \E t \in Tasks :
    /\ IsOp(t, "push")
    /\ IsErr(Ret(t), "Queue is full")
    /\ Zcard >= max_size
    /\ DedupKeyOf(call[t].arg) \notin DOMAIN items
    /\ \A m \in DOMAIN zset : HasRecord(m)

\* C5: a push whose deduplication key (file_name when none is given) has a
\* record in the item hash returns Ok at once and changes nothing: the
\* sorted set (size, members, scores), the records and the leases stay.
C5_DuplicatePushChangesNothing ==
  [][\A t \in Tasks :
       (pc[t] = "idle" /\ call'[t].op = "push"
          /\ DedupKeyOf(call'[t].arg) \in DOMAIN items) =>
         /\ pc'[t] = "done"
         /\ IsOk(RetNext(t), None)
         /\ UNCHANGED <<zset, items, claimed>>]_vars

\* A push with another file_name and priority Express has just been skipped
\* for an entry of priority Standard queued in an earlier second.
C5_Witness ==
  \E t \in Tasks :
    /\ IsOp(t, "push")
    /\ Unwrap(result[t]).line = 197
    /\ call[t].arg.priority = Some(Express)
    /\ LET k == DedupKeyOf(call[t].arg)
       IN /\ items[k].file_name # call[t].arg.file_name
          /\ \E m \in DOMAIN zset :
               /\ MemberKey(m).deduplication_key = k
               /\ MemberKey(m).enqueue_time < now
               /\ zset[m] = Standard

\* C6: calls made one after the other: claim_item returns an item only when
\* no lease key of that item exists, and a claim_item that finds exactly one
\* entry queued, leased, returns None.
C6_LeasedItemNotClaimedAgain ==
  [][\A t \in Tasks :
       Finishes(t, "claim_item") =>
         /\ (RetNext(t).ok /\ RetNext(t).value # None) =>
              ClaimedItemKey(Unwrap(RetNext(t).value).item_key) \notin DOMAIN claimed
         /\ (Zcard = 1 /\ \A m \in DOMAIN zset : Leased(m)) =>
              IsOk(RetNext(t), None)]_vars

\* A claim_item has just returned None on a queue whose only entry has its
\* record and a live lease held by the other task.
C6_Witness ==
  \E t \in Tasks :
    /\ IsOp(t, "claim_item")
    /\ Ret(t).ok /\ Ret(t).value = None
    /\ Zcard = 1
    /\ \A m \in DOMAIN zset :
         /\ Leased(m) /\ HasRecord(m)
         /\ \E u \in Tasks \ {t} : held[u] = Some(MemberKey(m))

\* C7: a lease key disappears only by delete_item of its item or by its
\* expiry, which comes within claim_ttl_seconds; and a claim_item call finding
\* an entry that a task claimed and did not delete, with no lease left and
\* only leased entries with records in front of it, returns that entry.
C7_ClaimedItemReclaimable ==
  [][/\ \A k \in DOMAIN claimed :
          /\ claimed[k] <= now + ClaimTtl
          /\ k \notin DOMAIN claimed' =>
               \/ now' = now + 1 /\ claimed[k] <= now'
               \/ \E t \in Tasks : Finishes(t, "delete_item")
                                     /\ ClaimedItemKey(call'[t].arg) = k
     /\ \A t \in Tasks : \A m \in DOMAIN zset :
          ( /\ Finishes(t, "claim_item")
            /\ ~Leased(m)
            /\ \E u \in Tasks : held[u] = Some(MemberKey(m))
            /\ \A n \in Before(m) : Leased(n) /\ HasRecord(n) ) =>
          /\ RetNext(t).ok
          /\ RetNext(t).value # None
          /\ Unwrap(RetNext(t).value).item_key = MemberKey(m)]_vars

\* C8: a claim_item call that began in the current second does not return
\* an item while the queue holds another entry with a smaller (priority,
\* enqueue_time) that has its record and no lease and was queued, in an
\* earlier second, before the call began.
C8_ClaimReturnsMinimal ==
  [][\A t \in Tasks :
       (Finishes(t, "claim_item") /\ pc[t] = "claim_setex" /\ local[t].began = now) =>
         LET x == Unwrap(local[t].item)
         IN \A m \in (local[t].seen \cap DOMAIN zset) \ {ItemKeyToString(x.item_key)} :
              (HasRecord(m) /\ ~Leased(m) /\ MemberKey(m).enqueue_time < now) =>
                ~ \/ zset[m] < x.priority
                  \/ zset[m] = x.priority /\ MemberKey(m).enqueue_time < x.enqueue_time]_vars

\* C9: calls made one after the other: when a push has just added an entry,
\* every other entry of the same priority, pushed before it, ranks in front
\* of it.
C9_FifoWithinPriority ==
  \A t \in Tasks :
    (IsOp(t, "push") /\ Unwrap(result[t]).line = 235) =>
      LET m == ItemKeyToString([enqueue_time |-> now,
                                deduplication_key |-> DedupKeyOf(call[t].arg)])
      IN \A n \in DOMAIN zset \ {m} : zset[n] = zset[m] => ZLess(n, m)

\* C10: calls made one after the other: a peek on a non-empty queue returns
\* an item, and no queued entry has a smaller priority number than it.
C10_PeekReturnsSmallestPriority ==
  \A t \in Tasks :
    (IsOp(t, "peek") /\ Zcard > 0) =>
      /\ Ret(t).ok
      /\ Ret(t).value # None
      /\ \A m \in DOMAIN zset : Unwrap(Ret(t).value).priority <= zset[m]

\* C11: delete_item(key) is a single step of the store: no state has a
\* delete_item call under way, and in the state the call returns from, the
\* member, the record and the lease key of `key` are all absent.
C11_DeleteItemAtomic ==
  [][\A t \in Tasks :
       call'[t].op = "delete_item" =>
         LET key == call'[t].arg
         IN /\ pc'[t] = "done"
            /\ pc[t] = "idle" =>
                 /\ IsOk(RetNext(t), None)
                 /\ ItemKeyToString(key) \notin DOMAIN zset'
                 /\ key.deduplication_key \notin DOMAIN items'
                 /\ ClaimedItemKey(key) \notin DOMAIN claimed']_vars

\* A delete_item has just returned while the other task, in the middle of a
\* scan, holds the deleted member it read from the sorted set and is about
\* to read its record.
C11_Witness ==
  \E t \in Tasks : \E u \in Tasks \ {t} :
    /\ IsOp(t, "delete_item")
    /\ pc[u] = "get_item_hget"
    /\ local[u].key = Some(call[t].arg)
    /\ ItemKeyToString(call[t].arg) \notin DOMAIN zset
    /\ call[t].arg.deduplication_key \notin DOMAIN items
    /\ ClaimedItemKey(call[t].arg) \notin DOMAIN claimed

\* C12: a claim_item call returns without error, and a call that began in
\* the current second does not return None while the queue holds an entry
\* that was queued, in an earlier second, before the call began and has its
\* record and no lease.
C12_ClaimNoneOnlyWhenAllLeased ==
  [][\A t \in Tasks :
       Finishes(t, "claim_item") =>
         /\ RetNext(t).ok
         /\ (RetNext(t).value = None /\ local[t].began = now /\ local[t].seen # {}) =>
              \A m \in local[t].seen \cap DOMAIN zset :
                ~ (HasRecord(m) /\ ~Leased(m) /\ MemberKey(m).enqueue_time < now)]_vars

\* C13: calls made one after the other: in the state empty() returns from,
\* the sorted set and the item hash are empty and no lease key is left
\* (get_size and get_claimed_item_count are 0); and an entry a push has
\* just added has no lease.
C13_EmptyDropsEverything ==
  [][\A t \in Tasks :
       /\ Finishes(t, "empty") =>
            /\ IsOk(RetNext(t), None)
            /\ Zcard' = 0
            /\ items' = <<>>
            /\ GetClaimedItemCount' = 0
       /\ (Finishes(t, "push") /\ pc[t] = "push_execute") =>
            ClaimedItemKey(Unwrap(local[t].key)) \notin DOMAIN claimed']_vars

\* The ItemKeys of the lease keys whose deduplication key has a record.
LeasedWithRecord ==
  {key \in {MemberKey(StripClaimedPrefix(k)) : k \in DOMAIN claimed} :
     key.deduplication_key \in DOMAIN items}

C15_ItemKeyRoundTrip ==
  codec_parsed.done =>
    /\ codec_key # None => codec_parsed.value = codec_key
    /\ (codec_key = None /\
          \/ Len(SplitDelim(Unwrap(codec_str))) = 1
          \/ ParseI64(SplitDelim(Unwrap(codec_str))[1]) = None) =>
         codec_parsed.value = None

\* ------------------------------------------ claims on the album read model
\* The two stores of album records.
AlbumStores == {album_repository, album_search_index}

\* The last call was put: the album it stored and the albums that matched.
PutAlbum == album_repository[Unwrap(album_call.file_name)]
PutMatches == PotentialDuplicates(album_repository, PutAlbum)

\* C16: for every album A with duplicate_of = X, after any sequence of put
\* and delete calls, X exists and X.duplicates contains the file name of A.
C16_DuplicateOfListedByOriginal ==
  \A store \in AlbumStores : \A a \in DOMAIN store :
    store[a].duplicate_of # None =>
      LET x == Unwrap(store[a].duplicate_of)
      IN x \in DOMAIN store /\ a \in Range(store[x].duplicates)

\* C17: after any sequence of put and delete calls, no album record has
\* both a duplicate_of and a non-empty duplicates.
C17_AtMostOneLinkage ==
  \A store \in AlbumStores : \A a \in DOMAIN store :
    store[a].duplicate_of = None \/ store[a].duplicates = <<>>

\* C18: after put(album) with two or more albums of the album's artists
\* sharing its name up to ASCII case, an album of the highest rating_count
\* has duplicates equal to the sorted file names of all the others, and
\* every other has duplicate_of equal to that album's file name.
C18_PutReconcilesGroup ==
  (album_call.op = "put" /\ Cardinality(PutMatches) >= 2) =>
    \E original \in PutMatches :
      /\ \A f \in PutMatches :
           album_repository[f].rating_count <= album_repository[original].rating_count
      /\ \A store \in AlbumStores :
           /\ store[original].duplicates = SortFileNames(PutMatches \ {original})
           /\ \A f \in PutMatches \ {original} : store[f].duplicate_of = Some(original)

\* A put has just made its album the original of a group of three, in
\* place of another: all three were written.
C18_Witness ==
  /\ album_call.op = "put"
  /\ Cardinality(PutMatches) = 3
  /\ album_call.writes = PutMatches
  /\ PutAlbum.duplicates # <<>>
  /\ \E f \in PutMatches : album_repository[f].duplicates # <<>> /\ f # PutAlbum.file_name

\* C19: after delete(file_name) of an album that had a duplicate_of or
\* duplicates, among the surviving albums of its artists and name an album
\* of the highest rating_count has duplicates equal to the sorted other
\* survivors, and no survivor refers to the deleted album.
C19_DeleteHealsGroup ==
  [][\A f \in AlbumFiles :
       (/\ f \in DOMAIN album_repository
        /\ Linked(album_repository[f])
        /\ album_call'.op = "delete"
        /\ album_call'.file_name = Some(f)
        /\ f \notin DOMAIN album_repository') =>
         LET survivors == PotentialDuplicates(album_repository', album_repository[f])
         IN survivors # {} =>
              \A store \in {album_repository', album_search_index'} :
                /\ \E original \in Originals(album_repository', survivors) :
                     store[original].duplicates = SortFileNames(survivors \ {original})
                /\ \A g \in survivors :
                     /\ store[g].duplicate_of # Some(f)
                     /\ f \notin Range(store[g].duplicates)]_vars

\* C20: process_duplicates run a second time on the same album, with no
\* put or delete in between, writes nothing and leaves every album's
\* duplicate_of and duplicates as they are.
C20_ReconciliationIdempotent ==
  [][\A f \in AlbumFiles :
       (/\ album_call.op \in {"put", "process_duplicates"}
        /\ album_call.file_name = Some(f)
        /\ album_call'.op = "process_duplicates"
        /\ album_call'.file_name = Some(f)) =>
         /\ album_call'.writes = {}
         /\ album_repository' = album_repository
         /\ album_search_index' = album_search_index]_vars

\* C21: when the album's own write (put) or removal (delete) succeeded,
\* put and delete return Ok, also when process_duplicates returned an Err.
C21_ReconciliationErrorSwallowed ==
  (album_call.op \in {"put", "delete"} /\ album_call.stored) => album_call.ok

\* A put has returned Ok although its process_duplicates failed after
\* writing one album.
C21_Witness ==
  /\ album_call.op = "put"
  /\ album_call.stored
  /\ album_call.reconcile_failed
  /\ album_call.writes # {}
  /\ album_call.ok

\* The albums of `group` are linked as one duplicate group in `store`:
\* exactly one of them has no duplicate_of, its duplicates are the sorted
\* file names of the others, and the others have it as duplicate_of.
Converged(store, group) ==
  \E original \in group :
    /\ \A f \in group : store[f].duplicate_of = None <=> f = original
    /\ store[original].duplicates = SortFileNames(group \ {original})
    /\ \A f \in group \ {original} : store[f].duplicate_of = Some(original)

\* C22: after any interleaving of concurrent puts of members of one
\* duplicate group, a further put of a member that runs alone leaves the
\* group with exactly one original, whose duplicates are the sorted file
\* names of all other members, each of which has duplicate_of equal to it.
C22_PutAloneConverges ==
  [][\A t \in Tasks :
       (album_tasks[t].pc # "idle" /\ album_tasks'[t].pc = "idle" /\ album_tasks[t].alone) =>
         LET group == PotentialDuplicates(album_repository', Unwrap(album_tasks[t].album))
         IN /\ Converged(album_repository', group)
            /\ Converged(album_search_index', group)]_vars

\* C23: every embedding the document of an album had when put(album) was
\* called is there, under the same key and with the same vector, when that
\* put returns Ok.
C23_PutPreservesEmbeddings ==
  [][\A t \in Tasks :
       (/\ index_tasks[t].op = "put"
        /\ index_tasks[t].pc # "idle"
        /\ index_tasks'[t].pc = "idle"
        /\ index_tasks'[t].ok) =>
         LET before == index_tasks[t].before
             after == DocEmbeddings(index_docs', Unwrap(index_tasks[t].album).file_name)
         IN \A key \in DOMAIN before : key \in DOMAIN after /\ after[key] = before[key]]_vars

\* C24: every album document the search index put has written has derived
\* fields equal to their sources: the five counts are the lengths of their
\* lists, is_duplicate is 1 exactly when duplicate_of is set (and 0
\* otherwise), and name_tag is name.
C24_DerivedFieldsEqualSources ==
  \A file_name \in DOMAIN index_docs :
    index_docs[file_name].album # None =>
      LET doc == Unwrap(index_docs[file_name].album)
      IN /\ doc.artist_count = Len(doc.artists)
         /\ doc.primary_genre_count = Len(doc.primary_genres)
         /\ doc.secondary_genre_count = Len(doc.secondary_genres)
         /\ doc.descriptor_count = Len(doc.descriptors)
         /\ doc.language_count = Len(doc.languages)
         /\ doc.is_duplicate \in {0, 1}
         /\ doc.is_duplicate = 1 <=> doc.duplicate_of # None
         /\ doc.name_tag = doc.name

\* A put has written a duplicate whose five lists have different lengths.
C24_Witness ==
  /\ StrA \in DOMAIN index_docs
  /\ index_docs[StrA].album # None
  /\ LET doc == Unwrap(index_docs[StrA].album)
     IN /\ doc.is_duplicate = 1
        /\ doc.artist_count = 2
        /\ doc.primary_genre_count = 0
        /\ doc.secondary_genre_count = 1
        /\ doc.descriptor_count = 2
        /\ doc.language_count = 1

\* The n largest scores of the items pushed so far are those of the heap:
\* no item left out has a greater score than an item kept.
TopOfFeed(h, fed, n) ==
  /\ h \subseteq Range(fed)
  /\ Cardinality(h) = n
  /\ \A x \in h : \A y \in Range(fed) \ h : x.score >= y.score

\* C25: after any sequence of N pushes, in any order, a heap of capacity K
\* holds min(K, N) of the items pushed, and none of the items it does not
\* hold is greater than one it holds.
C25_HeapHoldsLargest ==
  TopOfFeed(heap, heap_fed,
            IF heap_capacity < Len(heap_fed) THEN heap_capacity ELSE Len(heap_fed))

\* More items than the capacity were pushed, in ascending and then
\* descending order, with a tie.
C25_Witness ==
  /\ heap_capacity = 2
  /\ Len(heap_fed) = 4
  /\ heap_fed[1].score = 0 /\ heap_fed[2].score = 2
  /\ heap_fed[3].score = 1 /\ heap_fed[4].score = 1
  /\ recommend.pc = "idle"

\* C26: the heap never holds more than capacity items; a push onto a full
\* heap of an item not greater than the minimum leaves the contents as
\* they are; a push of a greater item removes a minimum and inserts the
\* item; with capacity 0 every push is discarded.
C26_PushOnFullHeap ==
  [][/\ Cardinality(heap) <= heap_capacity
     /\ Cardinality(heap') <= heap_capacity'
     /\ (heap_fed' # heap_fed /\ Cardinality(heap) = heap_capacity) =>
          LET item == heap_fed'[Len(heap_fed')]
          IN /\ heap_capacity = 0 => heap' = {}
             /\ (heap # {} /\ \A m \in HeapMins(heap) : ~(item.score > m.score)) =>
                  heap' = heap
             /\ (heap # {} /\ \E m \in HeapMins(heap) : item.score > m.score) =>
                  \E m \in HeapMins(heap) : heap' = (heap \ {m}) \cup {item}]_vars

\* A full heap of capacity 2 has had a greater item pushed, and then one
\* equal to its minimum.
C26_Witness ==
  /\ heap_capacity = 2
  /\ Len(heap_fed) = 4
  /\ heap_fed[1].score = 0 /\ heap_fed[2].score = 0
  /\ heap_fed[3].score = 1 /\ heap_fed[4].score = 0
  /\ heap = {heap_fed[2], heap_fed[3]}

TtlOf(file_name) ==
  [Artist |-> ttl_days.artist, Album |-> ttl_days.album, Chart |-> ttl_days.chart,
   AlbumSearchResult |-> ttl_days.search][PageType(file_name)]

\* file_name has a metadata record and the time is at most its
\* last_saved_at plus the TTL of its page type.
Fresh(file_name) ==
  /\ file_name \in DOMAIN file_metadata
  /\ now <= file_metadata[file_name].last_saved_at + TtlOf(file_name) * DayTicks

\* C29: is_file_stale(name) answers true exactly when name has no metadata
\* record or the time is strictly after last_saved_at plus the TTL of the
\* page type of name; at last_saved_at + TTL it answers false.
C29_StaleExactlyAfterTtl ==
  [][(stale_call.op = "none" /\ stale_call'.op = "is_file_stale") =>
       LET file_name == Unwrap(stale_call'.file_name)
       IN stale_call'.stale <=>
            \/ file_name \notin DOMAIN file_metadata
            \/ now > file_metadata[file_name].last_saved_at + TtlOf(file_name) * DayTicks]_vars

\* is_file_stale has answered false at exactly last_saved_at + TTL, the TTL
\* being a day or more.
C29_Witness ==
  /\ stale_call.op = "is_file_stale"
  /\ stale_call.saved # None
  /\ TtlOf(Unwrap(stale_call.file_name)) >= 1
  /\ stale_call.at = Unwrap(stale_call.saved) + TtlOf(Unwrap(stale_call.file_name)) * DayTicks
  /\ ~stale_call.stale

\* C30: enqueue_if_stale for a file that has metadata, up to last_saved_at
\* plus the TTL of its page type, changes nothing of the queue; after that
\* time, or for a file without metadata, it calls push with its parameters.
C30_EnqueueOnlyWhenStale ==
  [][(stale_call.op = "none" /\ stale_call'.op = "enqueue_if_stale") =>
       LET file_name == Unwrap(stale_call'.file_name)
       IN /\ Fresh(file_name) => UNCHANGED core
          /\ ~Fresh(file_name) =>
               /\ call'["t1"].op = "push"
               /\ call'["t1"].arg.file_name = file_name]_vars

\* An enqueue_if_stale at exactly last_saved_at + TTL has left the queue
\* empty, the file having been pushed by no earlier call.
C30_Witness ==
  /\ stale_call.op = "enqueue_if_stale"
  /\ stale_call.saved # None
  /\ TtlOf(Unwrap(stale_call.file_name)) >= 1
  /\ stale_call.at = Unwrap(stale_call.saved) + TtlOf(Unwrap(stale_call.file_name)) * DayTicks
  /\ ~stale_call.stale
  /\ zset = <<>>
  /\ call["t1"] = NoCall

\* C37: in every state each entry of the sorted set has a record in the
\* item hash under its deduplication key, and each record of the item hash
\* has an entry in the sorted set, also after a delete_item with an ItemKey
\* whose enqueue_time is not that of the queued entry.
C37_SortedSetAndHashConsistent ==
  /\ \A m \in DOMAIN zset : HasRecord(m)
  /\ \A k \in DOMAIN items : \E m \in DOMAIN zset : MemberKey(m).deduplication_key = k

\* The step starts, continues or finishes a claim_item call of task t.
ClaimItemStep(t) == call'[t].op = "claim_item" /\ pc'[t] # "idle"

\* A claim_item call of task t leaves the sorted set (size, members and
\* scores, hence every rank) and the item hash as they were, and the item it
\* returns is still in the sorted set with its record in the item hash.
ClaimItemFrame(t) ==
  ClaimItemStep(t) =>
    /\ zset' = zset
    /\ items' = items
    /\ (Finishes(t, "claim_item") /\ Unwrap(result'[t]).ret # Ok(None)) =>
          /\ ItemKeyToString(Unwrap(held'[t])) \in DOMAIN zset'
          /\ Unwrap(held'[t]).deduplication_key \in DOMAIN items'
          /\ IsFull' = IsFull

\* The sorted-set entry or the record of the item task t claimed goes away
\* in the step.
SlotFreed(t) ==
  /\ held[t] # None
  /\ \/ /\ ItemKeyToString(Unwrap(held[t])) \in DOMAIN zset
        /\ ItemKeyToString(Unwrap(held[t])) \notin DOMAIN zset'
     \/ /\ Unwrap(held[t]).deduplication_key \in DOMAIN items
        /\ Unwrap(held[t]).deduplication_key \notin DOMAIN items'

\* C38 as stated: claim_item changes neither the sorted set nor the item
\* hash, the claimed item still counts toward max_size and still blocks a
\* push of its deduplication key, and the entry or the record of a claimed
\* item goes away only in a delete_item.
C38_OnlyDeleteItemFreesSlot ==
  [][\A t \in Tasks :
       /\ ClaimItemFrame(t)
       /\ SlotFreed(t) => \E u \in Tasks : Finishes(u, "delete_item")]_vars

\* C38: claim_item changes neither the sorted set nor the item hash (size,
\* ranks and records stay), the item it returns is still in the sorted set
\* and in the item hash, so it counts toward max_size and blocks a push of
\* its deduplication key, and the entry or the record of a claimed item
\* goes away only in a delete_item or in an empty().
C38_ClaimItemFreesNoSlot ==
  [][\A t \in Tasks :
       /\ ClaimItemFrame(t)
       /\ SlotFreed(t) => \E u \in Tasks :
                            Finishes(u, "delete_item") \/ Finishes(u, "empty")]_vars

\* A task holds a claimed item under lease in a full queue and a push of
\* the same deduplication key has just been skipped.
C38_Witness ==
  \E t, u \in Tasks :
    /\ held[t] # None
    /\ IsClaimed(Unwrap(held[t]))
    /\ ItemKeyToString(Unwrap(held[t])) \in DOMAIN zset
    /\ IsFull
    /\ pc[u] = "done" /\ call[u].op = "push"
    /\ DedupKeyOf(call[u].arg) = Unwrap(held[t]).deduplication_key
    /\ result[u] = Some([ret |-> Ok(None), line |-> 197])

\* C40: when a put(album) and a put_embedding for the same file_name have
\* both returned Ok and neither task has made a call since, the document
\* of the album holds the embedding of that put_embedding under its key.
C40_InterleavedEmbeddingKept ==
  \A t, u \in Tasks :
    (/\ index_tasks[t].pc = "idle" /\ index_tasks[t].op = "put_embedding"
     /\ index_tasks[t].ok
     /\ index_tasks[u].pc = "idle" /\ index_tasks[u].op = "put"
     /\ index_tasks[u].ok
     /\ Unwrap(index_tasks[u].album).file_name = Head(index_tasks[t].todo).file_name) =>
       LET embedding == Head(index_tasks[t].todo)
           after == DocEmbeddings(index_docs, embedding.file_name)
       IN embedding.key \in DOMAIN after /\ after[embedding.key] = embedding.embedding

\* C39: a recommend_albums whose search succeeded returns: every
\* candidate is assessed, the receiver loop consumes every recommendation
\* that was sent and then ends, and when it has returned each successful
\* assessment has been pushed onto the heap, none lost and none left in
\* the channel.
C39_RecommendTerminates ==
  /\ (recommend.pc = "receive") ~> (recommend.pc = "done")
  /\ [](recommend.pc = "done" /\ Unwrap(recommend.result).ok =>
          /\ recommend.pending = {}
          /\ recommend.channel = <<>>
          /\ Len(heap_fed) = Cardinality({i \in 1..Len(Unwrap(recommend.search).value) :
                                            Assess(Unwrap(recommend.search).value[i]).ok})
          /\ \A i \in 1..Len(Unwrap(recommend.search).value) :
               Assess(Unwrap(recommend.search).value[i]).ok =>
                 \E k \in 1..Len(heap_fed) :
                   heap_fed[k] = Assess(Unwrap(recommend.search).value[i]).value)

\* A call with three candidates, one of them not assessable, has returned
\* after the two recommendations sent were received.
C39_Witness ==
  /\ recommend.pc = "done"
  /\ Unwrap(recommend.result).ok
  /\ Len(Unwrap(recommend.search).value) = 3
  /\ Len(heap_fed) = 2
  /\ recommend.channel = <<>>

\* The event the step publishes on the File stream, if it publishes one.
Published ==
  IF Len(event_stream'.File) = Len(event_stream.File) + 1
  THEN Some(event_stream'.File[Len(event_stream'.File)])
  ELSE None

\* C31: when put_file publishes FileSaved on the File stream, the content
\* store already holds the content the call was given and the metadata
\* repository already holds a record of the file with the id of the event;
\* and a put_file of a file that has a record keeps the id of the record
\* and does not decrease its last_saved_at.
C31_SavedAfterContentAndMetadata ==
  [][/\ (Published # None /\ Unwrap(Published).event.type = "FileSaved") =>
          LET e == Unwrap(Published).event
          IN /\ file_call.op = "put_file"
             /\ e.file_name = Unwrap(file_call.file_name)
             /\ e.file_name \in DOMAIN file_content_store
             /\ file_content_store[e.file_name] = Unwrap(file_call.content)
             /\ e.file_name \in DOMAIN file_metadata
             /\ file_metadata[e.file_name].id = e.file_id
             /\ file_metadata' = file_metadata
             /\ file_content_store' = file_content_store
     /\ file_call.op = "put_file" =>
          \A f \in DOMAIN file_metadata :
            /\ f \in DOMAIN file_metadata'
            /\ file_metadata'[f].id = file_metadata[f].id
            /\ file_metadata'[f].last_saved_at >= file_metadata[f].last_saved_at]_vars

\* A file put twice, a second apart, has two FileSaved events with the one
\* id on the File stream, and its record has the time of the second put.
C31_Witness ==
  /\ Len(event_stream.File) = 2
  /\ event_stream.File[1].event = event_stream.File[2].event
  /\ event_stream.File[1].event.type = "FileSaved"
  /\ event_stream.File[1].event.file_name = StrA
  /\ file_metadata[StrA].id = event_stream.File[1].event.file_id
  /\ file_metadata[StrA].last_saved_at = Epoch + 1
  /\ file_content_store[StrA] = StrS

\* C32: a delete_file of a name that had no metadata record when it was
\* called fails (with the not-found error when the repository answered),
\* publishes nothing and leaves the metadata and the contents as they
\* were; a delete_file that returns Ok was of a file that had a record and
\* has published exactly one event, FileDeleted with the id that record
\* had and the name, and the record and the content are gone.
C32_DeleteFileNotFoundOrOneEvent ==
  [][(file_call.op = "delete_file" /\ file_call.pc = "done" /\ file_call'.op = "none") =>
       LET before == Unwrap(file_call.before)
           file_name == Unwrap(file_call.file_name)
           ret == Unwrap(file_call.ret)
       IN /\ file_name \notin DOMAIN before.file_metadata =>
               /\ ~ret.ok
               /\ ret.value \in {"File metadata not found", "repository"}
               /\ FileStores = before
          /\ ret.ok =>
               /\ file_name \in DOMAIN before.file_metadata
               /\ event_stream.File =
                    Append(before.stream,
                           [event |-> [type |-> "FileDeleted",
                                       file_id |-> before.file_metadata[file_name].id,
                                       file_name |-> file_name],
                            correlation_id |-> None])
               /\ file_name \notin DOMAIN file_metadata
               /\ file_name \notin DOMAIN file_content_store
          /\ ~ret.ok => event_stream.File = before.stream]_vars

\* A file was put and deleted, and a second delete_file of it has failed
\* with the not-found error.
C32_Witness ==
  /\ Len(event_stream.File) = 2
  /\ event_stream.File[1].event.type = "FileSaved"
  /\ event_stream.File[2].event.type = "FileDeleted"
  /\ event_stream.File[2].event.file_id = event_stream.File[1].event.file_id
  /\ file_call.op = "delete_file"
  /\ file_call.pc = "done"
  /\ file_call.file_name = Some(event_stream.File[2].event.file_name)
  /\ file_call.ret = Some(Err("File metadata not found"))

\* The ordering-group id of event i of the batch.
GroupOf(i) == GroupId(subscriber.id, subscriber.batch[i].payload)

\* C33: of two events of a batch with the same ordering-group id, the
\* handler of the later one has not begun unless the handler of the
\* earlier one has ended.
C33_SameGroupSequential ==
  \A i, j \in 1..Len(subscriber.batch) :
    (/\ i < j
     /\ GroupOf(i) # None
     /\ GroupOf(i) = GroupOf(j)
     /\ subscriber.batch[j].state # "waiting") =>
       subscriber.batch[i].state \in {"ok", "failed"}

\* Of two events of a batch named "K" the first has been handled and the
\* second is being handled, or two deletions of one album page likewise.
C33_Witness ==
  /\ Len(subscriber.batch) = 2
  /\ GroupOf(1) # None
  /\ GroupOf(1) = GroupOf(2)
  /\ subscriber.batch[1].state = "ok"
  /\ subscriber.batch[2].state = "running"

\* C34: the cursor moves only when every handler of the batch has ended,
\* forward, and never past an event whose handler failed; it moves past
\* the whole batch exactly when every handler succeeded; and a poll
\* delivers the events that follow the cursor, so that a failed event is
\* delivered again.
C34_AtLeastOnce ==
  [][/\ subscriber'.cursor # subscriber.cursor =>
          /\ \A k \in 1..Len(subscriber.batch) :
               subscriber.batch[k].state \in {"ok", "failed"}
          /\ subscriber'.cursor > subscriber.cursor
          /\ subscriber'.cursor <= subscriber.cursor + Len(subscriber.batch)
          /\ \A k \in 1..Len(subscriber.batch) :
               subscriber'.cursor >= subscriber.cursor + k =>
                 subscriber.batch[k].state = "ok"
     /\ (subscriber.batch # <<>> /\ subscriber'.batch = <<>>) =>
          ((\A k \in 1..Len(subscriber.batch) : subscriber.batch[k].state = "ok") <=>
             subscriber'.cursor = subscriber.cursor + Len(subscriber.batch))
     /\ (subscriber.batch = <<>> /\ subscriber'.batch # <<>>) =>
          /\ subscriber'.cursor = subscriber.cursor
          /\ \A k \in 1..Len(subscriber'.batch) :
               subscriber'.batch[k].payload =
                 event_stream[StreamOf(subscriber'.id)][subscriber.cursor + k]]_vars

\* The handler of the second event of an earlier batch failed: the cursor
\* is behind that event, which is in the batch again.
C34_Witness ==
  /\ subscriber.cursor = 1
  /\ Len(event_stream[StreamOf(subscriber.id)]) = 2
  /\ Len(subscriber.batch) = 1
  /\ subscriber.batch[1].state = "failed"
  /\ subscriber.batch[1].payload = event_stream[StreamOf(subscriber.id)][2]

\* C35: two FileParsed(Album) events of a batch of update_album_read_models
\* whose albums share an artist and have names equal ignoring ASCII case
\* have the same ordering-group id.
C35_DuplicatesShareGroup ==
  subscriber.id = "update_album_read_models" =>
    \A i, j \in 1..Len(subscriber.batch) :
      LET a == subscriber.batch[i].payload.event
          b == subscriber.batch[j].payload.event
      IN (/\ a.type = "FileParsed" /\ a.data.type = "Album"
          /\ b.type = "FileParsed" /\ b.data.type = "Album"
          /\ a.data.artists \cap b.data.artists # {}
          /\ EqIgnoreAsciiCase(AsciiName(a.data.name), AsciiName(b.data.name))) =>
           GroupOf(i) = GroupOf(j)

\* C36: an enqueue_if_stale of crawl_chart_albums or crawl_artist_albums
\* that pushes does so at priority Low when the correlation_id of the event
\* being handled is present and begins with "crawl_similar_albums:", and
\* at priority Standard otherwise; never at Express or High.
C36_CrawlPriority ==
  [][\A i \in 1..Len(subscriber.batch) :
       (/\ subscriber.batch[i].state = "running"
        /\ subscriber'.batch[i].enqueued = subscriber.batch[i].enqueued + 1
        /\ call'["t1"].op = "push") =>
         LET correlation_id == subscriber.batch[i].payload.correlation_id
             similar ==
               /\ correlation_id # None
               /\ Len(Unwrap(correlation_id)) >= Len(CrawlSimilarAlbums)
               /\ SubSeq(Unwrap(correlation_id), 1, Len(CrawlSimilarAlbums)) =
                    CrawlSimilarAlbums
             priority == call'["t1"].arg.priority
         IN /\ priority # None
            /\ Unwrap(priority) \notin {Express, High}
            /\ similar <=> Unwrap(priority) = Low
            /\ ~similar <=> Unwrap(priority) = Standard]_vars

\* The album of a chart that was parsed for "crawl_similar_albums:a" is in
\* the queue at priority Low.
C36_Witness ==
  /\ subscriber.id = "crawl_chart_albums"
  /\ Len(subscriber.batch) >= 1
  /\ subscriber.batch[1].payload.correlation_id = Some(CrawlSimilarAlbums \o StrA)
  /\ subscriber.batch[1].state = "ok"
  /\ \E m \in DOMAIN zset : zset[m] = Low /\ MemberKey(m).deduplication_key = StrA
====
